---- MODULE Spec2Model ----
(***************************************************************************)
(* Model of the pagination loops of the repository:                        *)
(*   smart  : SmartPaginationExtractor.extract_all_data                    *)
(*            (src/browser_use/tools/smart_pagination.py)                  *)
(*   gtm    : GTMTools.smart_paginate_and_extract                          *)
(*            (src/openfunnel_browser/tools/gtm_tools.py)                  *)
(*   simple : extract_all_paginated_data                                   *)
(*            (src/browser_use/tools/simple_tools.py)                      *)
(* One run of one loop on a freshly constructed object.  The browser and   *)
(* the LLM are collaborators: each call returns a value drawn from a small *)
(* set or raises.  The browser stays on its page unless a click was        *)
(* dispatched during navigation.                                           *)
(* Further specifications model the agent loop of AgentOrchestrator.run    *)
(* (AgentSpec), detect_pagination of simple_tools.py (DetectSpec) and the  *)
(* navigation step of the gtm and smart loops (NavSpec).                   *)
(* CompanyExtractor.extract of gtm_agent/extraction.py is ExtractSpec, the *)
(* URL key _normalize_url is NormSpec, LLMPlanner.select_action is         *)
(* SelectSpec, and AgentLiveSpec is AgentSpec with fair scheduling.        *)
(* GTMAgent.extract of openfunnel_browser/agent/gtm_agent.py is            *)
(* GtmAgentSpec.                                                           *)
(***************************************************************************)
EXTENDS Naturals, Sequences, FiniteSets

VARIABLES
    impl,                     \* which loop runs: "smart", "gtm" or "simple"
    max_pages,                \* the max_pages argument
    pc,                       \* position in the loop: while, url, extract, navigate, done
    browser_url,              \* the page the browser is on
    current_page,
    consecutive_failures,
    visited_urls,
    extracted_data,           \* smart: self.extracted_data, gtm: all_extractions, simple: all_data
    content_hashes,
    consecutive_same_content,
    last_content_hash,
    stoppedAt,                \* which exit of the loop was taken
    report,                   \* the value returned to the caller
    cycles,                   \* history: number of cycles (loop iterations) begun
    raised_at,                \* history: where the latest cycle raised ("none" if it did not)
    raised_ever,              \* history: some collaborator call raised in this run
    hash_log,                 \* history: content hash of every cycle that hashed its content
    extract_log,              \* history: browser URL of every extraction call
    run,                      \* history: number of the run on this extractor object
    \* AgentOrchestrator.run (src/gtm_agent/gtm_agent/orchestrator.py)
    max_steps,                \* self.config.max_steps
    agent_pc,                 \* position in run: select, execute, observe, exit, returned, raised
    context,                  \* the AgentContext of the run
    action,                   \* the ToolAction about to be executed
    planner_log,              \* history: the non-terminal actions the planner returned
    tool_log,                 \* history: every tool.execute call, in order
    \* detect_pagination (src/browser_use/tools/simple_tools.py)
    detect_pc,                \* position: start, done, failed
    selector_map,             \* the elements of the page, in the order of the selector map
    pagination_info,          \* the metadata detect_pagination returns
    \* the navigation step of the gtm and smart loops
    nav_pc,                   \* position: detect, page_numbers, common, bottom, top, load_more, done
    nav_impl,                 \* which loop navigates
    nav_page,                 \* current_page at the navigation step
    nav_elements,             \* the pagination elements the detection handed over
    nav_log,                  \* history: the strategies tried, in order
    nav_result,               \* whether the navigation step advanced the page
    \* CompanyExtractor.extract (src/gtm_agent/gtm_agent/extraction.py)
    ex_pc,                    \* position: collect, vision, vision_convert, llm, refine, from_dom, done, raised
    extractor,                \* which collaborators the extractor was constructed with
    extract_args,             \* max_results, dom_excerpt and screenshot_bytes of the call
    dom_texts,                \* the texts dom.query_text_all hands back, in order
    combined,                 \* the local variable combined
    ex_log,                   \* history: every collaborator call and its reply, in order
    ex_result,                \* the (records, source) pair returned
    \* SmartPaginationExtractor._normalize_url on URL strings
    norm_pc,                  \* position: start, once, twice
    norm_url,                 \* the URL handed in
    norm_key,                 \* the latest value returned
    \* LLMPlanner.select_action (src/gtm_agent/gtm_agent/planners/llm.py)
    select_pc,                \* position: start, returned, raised
    response,                 \* the text of the reply of llm.complete
    selected,                 \* the ToolAction returned
    \* GTMAgent.extract (src/openfunnel_browser/agent/gtm_agent.py)
    ga_pc,                    \* position in extract and _execute_extraction_plan
    instructions,             \* the instructions argument, as a sequence of pieces of text
    recon_result,             \* what create_extraction_plan returned
    ga_log,                   \* history: every collaborator call of the run, in order
    ga_report                 \* the dict extract returns

vars == <<impl, max_pages, pc, browser_url, current_page, consecutive_failures,
          visited_urls, extracted_data, content_hashes, consecutive_same_content,
          last_content_hash, stoppedAt, report, cycles, raised_at, raised_ever,
          hash_log, extract_log, run,
          max_steps, agent_pc, context, action, planner_log, tool_log,
          detect_pc, selector_map, pagination_info,
          nav_pc, nav_impl, nav_page, nav_elements, nav_log, nav_result,
          ex_pc, extractor, extract_args, dom_texts, combined, ex_log, ex_result,
          norm_pc, norm_url, norm_key, select_pc, response, selected,
          ga_pc, instructions, recon_result, ga_log, ga_report>>

\* The variables of each component.
loopVars == <<impl, max_pages, pc, browser_url, current_page, consecutive_failures,
              visited_urls, extracted_data, content_hashes, consecutive_same_content,
              last_content_hash, stoppedAt, report, cycles, raised_at, raised_ever,
              hash_log, extract_log, run>>

agentVars == <<max_steps, agent_pc, context, action, planner_log, tool_log>>

detectVars == <<detect_pc, selector_map, pagination_info>>

navVars == <<nav_pc, nav_impl, nav_page, nav_elements, nav_log, nav_result>>

extractVars == <<ex_pc, extractor, extract_args, dom_texts, combined, ex_log, ex_result>>

normVars == <<norm_pc, norm_url, norm_key>>

plannerVars == <<select_pc, response, selected>>

gtmAgentVars == <<ga_pc, instructions, recon_result, ga_log, ga_report>>

\* What an action of a pagination loop leaves alone.
otherVars == <<agentVars, detectVars, navVars, extractVars, normVars, plannerVars, gtmAgentVars>>

-----------------------------------------------------------------------------
\* Bounds of the model.

\* max_pages ranges over 0..MaxPagesBound
MaxPagesBound == 3

\* The URLs the browser can be on: three paths, one of them also with a query string
\* and with a fragment.
Urls ==
    { [scheme |-> "https", netloc |-> "site", path |-> "/list",  query |-> "",
       fragment |-> ""],
      [scheme |-> "https", netloc |-> "site", path |-> "/list",  query |-> "page=2",
       fragment |-> ""],
      [scheme |-> "https", netloc |-> "site", path |-> "/list",  query |-> "",
       fragment |-> "top"],
      [scheme |-> "https", netloc |-> "site", path |-> "/list2", query |-> "",
       fragment |-> ""],
      [scheme |-> "https", netloc |-> "site", path |-> "/list3", query |-> "",
       fragment |-> ""] }

\* The page the caller opened before it started the loop
StartUrl ==
    [scheme |-> "https", netloc |-> "site", path |-> "/list", query |-> "",
     fragment |-> ""]

\* Page contents as character sequences: the empty text, two texts that differ in
\* case and whitespace only, and two texts with other words.
Contents ==
    { <<>>,
      <<"a">>,
      <<" ", "A", " ">>,
      <<"a", " ", " ", "B">>,
      <<"b">> }

-----------------------------------------------------------------------------
\* Program constants.

\* max_consecutive_failures = 3 (smart_pagination.py:37); the literal 3 of gtm_tools.py:332
max_consecutive_failures == 3

\* if self.consecutive_same_content >= 2 (smart_pagination.py:65)
LoopThreshold == 2

-----------------------------------------------------------------------------
\* Pure functions.

\* str.lower() on the model's alphabet
Lower(ch) == CASE ch = "A" -> "a" [] ch = "B" -> "b" [] OTHER -> ch

LowerStr(s) == [i \in 1..Len(s) |-> Lower(s[i])]

\* str.split(): the maximal runs of non-whitespace characters
RECURSIVE SplitWs(_, _, _)
SplitWs(s, cur, acc) ==
    IF s = <<>>
    THEN (IF cur = <<>> THEN acc ELSE Append(acc, cur))
    ELSE IF Head(s) = " "
         THEN SplitWs(Tail(s), <<>>, IF cur = <<>> THEN acc ELSE Append(acc, cur))
         ELSE SplitWs(Tail(s), Append(cur, Head(s)), acc)

\* ' '.join(words)
RECURSIVE JoinSp(_)
JoinSp(ws) ==
    IF ws = <<>> THEN <<>>
    ELSE IF Len(ws) = 1 THEN ws[1]
    ELSE ws[1] \o <<" ">> \o JoinSp(Tail(ws))

\* _hash_content: md5 of the lower-cased, whitespace-collapsed text.  The digest is
\* taken to be collision-free on the model's texts, so the normalized text stands
\* for its digest.
hash_content(content) == JoinSp(SplitWs(LowerStr(content), <<>>, <<>>))

\* Mutant: the query string is part of the key
normalize_url_WithQuery(url) == <<url.scheme, url.netloc, url.path, url.query>>

\* _normalize_url: f"{scheme}://{netloc}{path}", the query dropped
normalize_url(url) == <<url.scheme, url.netloc, url.path>>

\* last_content_hash = None
None == <<"None">>

\* The key under which a loop records a visited URL: smart normalizes, gtm stores
\* the URL string as it is.
SmartUrlKey(url) == normalize_url(url)

GtmUrlKey(url) == url

-----------------------------------------------------------------------------
\* Decisions of the loops, one operator per condition of the code.

\* while current_page <= max_pages and consecutive_failures < max_consecutive_failures
SmartGuard(page, failures, limit) ==
    page <= limit /\ failures < max_consecutive_failures

\* while current_page <= max_pages and consecutive_failures < 3
GtmGuard(page, failures, limit) ==
    page <= limit /\ failures < max_consecutive_failures

\* while current_page <= max_pages
SimpleGuard(page, limit) == page <= limit

\* Mutant: the visited check never fires
AlreadyVisited_Never(key, visited) == FALSE

\* if url_key in self.visited_urls / if current_url in visited_urls
AlreadyVisited(key, visited) == key \in visited

\* Mutant: the loop guard fires one repeat later
LoopDetected_Late(count) == count >= LoopThreshold + 1

\* if self.consecutive_same_content >= 2
LoopDetected(count) == count >= LoopThreshold

\* Mutant: a hash seen anywhere in the run counts as a repeat of the last one
SameAsLast_Seen(h, last) == h \in content_hashes

\* if content_hash == self.last_content_hash
SameAsLast(h, last) == h = last

\* Mutant: every content counts as new
IsNewContent_Always(h, hashes) == TRUE

\* if content_hash not in self.content_hashes
IsNewContent(h, hashes) == h \notin hashes

\* if page_data and page_data.get('content'): a non-empty string is true
HasContent(content) == content # <<>>

\* _consolidate_results: "Page n: content" for every kept entry that has content
ConsolidateSmart(data) == SelectSeq(data, LAMBDA d : HasContent(d.content))

\* Mutant: pages_processed counts the entries kept
SmartReturn_Kept(page, data) ==
    [error |-> FALSE, pages_processed |-> Len(data), pages |-> ConsolidateSmart(data)]

\* The dict returned by extract_all_data
SmartReturn(page, data) ==
    [error |-> FALSE, pages_processed |-> page - 1, pages |-> ConsolidateSmart(data)]

\* The dict returned by smart_paginate_and_extract: pages_processed, and
\* all_extractions in full
GtmReturn(page, data) ==
    [error |-> FALSE, pages_processed |-> page - 1, pages |-> data]

\* The ActionResult returned by extract_all_paginated_data after the loop
SimpleReturn(data) ==
    [error |-> FALSE, pages_processed |-> Len(data), pages |-> data]

\* except Exception as e: return ActionResult(error=...): all_data is dropped
SimpleError == [error |-> TRUE, pages_processed |-> 0, pages |-> <<>>]

\* No value has been returned yet
NoReport == [error |-> FALSE, pages_processed |-> 0, pages |-> <<>>]

-----------------------------------------------------------------------------
\* The components that do not take part in a specification stay as they are.

AgentIdle ==
    /\ max_steps = 0 /\ agent_pc = "idle" /\ context = <<>> /\ action = <<>>
    /\ planner_log = <<>> /\ tool_log = <<>>

DetectIdle ==
    /\ detect_pc = "idle" /\ selector_map = <<>> /\ pagination_info = <<>>

NavIdle ==
    /\ nav_pc = "idle" /\ nav_impl = "none" /\ nav_page = 0 /\ nav_elements = <<>>
    /\ nav_log = <<>> /\ nav_result = FALSE

ExtractIdle ==
    /\ ex_pc = "idle" /\ extractor = <<>> /\ extract_args = <<>> /\ dom_texts = <<>>
    /\ combined = <<>> /\ ex_log = <<>> /\ ex_result = <<>>

NormIdle == norm_pc = "idle" /\ norm_url = <<>> /\ norm_key = <<>>

PlannerIdle == select_pc = "idle" /\ response = <<>> /\ selected = <<>>

GtmAgentIdle ==
    /\ ga_pc = "idle" /\ instructions = <<>> /\ recon_result = <<>>
    /\ ga_log = <<>> /\ ga_report = <<>>

LoopIdle ==
    /\ impl = "none" /\ max_pages = 0 /\ pc = "idle" /\ browser_url = StartUrl
    /\ current_page = 0 /\ consecutive_failures = 0 /\ visited_urls = {}
    /\ extracted_data = <<>> /\ content_hashes = {} /\ consecutive_same_content = 0
    /\ last_content_hash = None /\ stoppedAt = "none" /\ report = NoReport
    /\ cycles = 0 /\ raised_at = "none" /\ raised_ever = FALSE /\ hash_log = <<>>
    /\ extract_log = <<>> /\ run = 0

-----------------------------------------------------------------------------
\* State after construction and the call of the loop.

Init ==
    /\ impl \in {"smart", "gtm", "simple"}
    /\ max_pages \in 0..MaxPagesBound
    /\ pc = "while"
    /\ browser_url = StartUrl
    /\ current_page = 1
    /\ consecutive_failures = 0
    /\ visited_urls = {}
    /\ extracted_data = <<>>
    /\ content_hashes = {}
    /\ consecutive_same_content = 0
    /\ last_content_hash = None
    /\ stoppedAt = "none"
    /\ report = NoReport
    /\ cycles = 0
    /\ raised_at = "none"
    /\ raised_ever = FALSE
    /\ hash_log = <<>>
    /\ extract_log = <<>>
    /\ run = 1
    /\ AgentIdle /\ DetectIdle /\ NavIdle /\ ExtractIdle
    /\ NormIdle /\ PlannerIdle /\ GtmAgentIdle

-----------------------------------------------------------------------------
\* SmartPaginationExtractor.extract_all_data

\* The loop guard holds: a cycle begins.
SmartWhileEnter ==
    /\ impl = "smart" /\ pc = "while"
    /\ SmartGuard(current_page, consecutive_failures, max_pages)
    /\ pc' = "url"
    /\ cycles' = cycles + 1
    /\ UNCHANGED <<otherVars, run, impl, max_pages, browser_url, current_page, consecutive_failures,
                   visited_urls, extracted_data, content_hashes,
                   consecutive_same_content, last_content_hash, stoppedAt, report,
                   raised_at, raised_ever, hash_log, extract_log>>

\* The loop guard fails: return self._consolidate_results(query, current_page - 1)
SmartWhileExit ==
    /\ impl = "smart" /\ pc = "while"
    /\ ~SmartGuard(current_page, consecutive_failures, max_pages)
    /\ pc' = "done"
    /\ stoppedAt' = IF current_page > max_pages THEN "max_pages" ELSE "failures"
    /\ report' = SmartReturn(current_page, extracted_data)
    /\ UNCHANGED <<otherVars, run, impl, max_pages, browser_url, current_page, consecutive_failures,
                   visited_urls, extracted_data, content_hashes,
                   consecutive_same_content, last_content_hash, cycles,
                   raised_at, raised_ever, hash_log, extract_log>>

\* except Exception: consecutive_failures += 1, and break once the budget is used up
SmartExcept(where) ==
    /\ consecutive_failures' = consecutive_failures + 1
    /\ raised_at' = where
    /\ raised_ever' = TRUE
    /\ IF consecutive_failures + 1 >= max_consecutive_failures
       THEN /\ pc' = "done"
            /\ stoppedAt' = "failures"
            /\ report' = SmartReturn(current_page, extracted_data)
       ELSE /\ pc' = "while"
            /\ UNCHANGED <<stoppedAt, report>>

\* get_current_page_url, the visited check and visited_urls.add
SmartGetUrl ==
    /\ impl = "smart" /\ pc = "url"
    /\ \/ \* get_current_page_url raises
          /\ SmartExcept("url")
          /\ UNCHANGED <<visited_urls>>
       \/ \* already visited: break
          /\ AlreadyVisited(SmartUrlKey(browser_url), visited_urls)
          /\ pc' = "done"
          /\ stoppedAt' = "visited"
          /\ report' = SmartReturn(current_page, extracted_data)
          /\ UNCHANGED <<visited_urls, consecutive_failures, raised_at, raised_ever>>
       \/ \* a new URL: record it and go on to the extraction
          /\ ~AlreadyVisited(SmartUrlKey(browser_url), visited_urls)
          /\ visited_urls' = visited_urls \cup {SmartUrlKey(browser_url)}
          /\ pc' = "extract"
          /\ raised_at' = "none"
          /\ UNCHANGED <<consecutive_failures, stoppedAt, report, raised_ever>>
    /\ UNCHANGED <<otherVars, run, impl, max_pages, browser_url, current_page, extracted_data,
                   content_hashes, consecutive_same_content, last_content_hash,
                   cycles, hash_log, extract_log>>

\* _smart_page_extraction returned page_data with this content: lines 57-82
SmartPageData(content) ==
    LET h == hash_content(content)
        same == SameAsLast(h, last_content_hash)
        count == IF same THEN consecutive_same_content + 1 ELSE 0
        entry == [page |-> current_page, url |-> browser_url, content |-> content]
    IN  IF HasContent(content)
        THEN /\ hash_log' = Append(hash_log, h)
             /\ consecutive_same_content' = count
             /\ last_content_hash' = h
             /\ IF same /\ LoopDetected(count)
                THEN \* INFINITE LOOP DETECTED: break
                     /\ pc' = "done"
                     /\ stoppedAt' = "loop"
                     /\ report' = SmartReturn(current_page, extracted_data)
                     /\ UNCHANGED <<content_hashes, extracted_data, consecutive_failures>>
                ELSE /\ IF IsNewContent(h, content_hashes)
                        THEN /\ content_hashes' = content_hashes \cup {h}
                             /\ extracted_data' = Append(extracted_data, entry)
                             /\ consecutive_failures' = 0
                        ELSE UNCHANGED <<content_hashes, extracted_data,
                                         consecutive_failures>>
                     /\ pc' = "navigate"
                     /\ UNCHANGED <<stoppedAt, report>>
        ELSE /\ consecutive_failures' = consecutive_failures + 1
             /\ pc' = "navigate"
             /\ UNCHANGED <<hash_log, consecutive_same_content, last_content_hash,
                            content_hashes, extracted_data, stoppedAt, report>>

\* page_data = await self._smart_page_extraction(query, current_page), and the
\* duplicate handling that follows it
SmartExtract ==
    /\ impl = "smart" /\ pc = "extract"
    /\ extract_log' = Append(extract_log, browser_url)
    /\ \/ \* a scroll or get_current_page_url inside the extraction raises
          /\ SmartExcept("extract")
          /\ UNCHANGED <<hash_log, consecutive_same_content, last_content_hash,
                         content_hashes, extracted_data>>
       \/ \E content \in Contents :
             /\ SmartPageData(content)
             /\ UNCHANGED <<raised_at, raised_ever>>
    /\ UNCHANGED <<otherVars, run, impl, max_pages, browser_url, current_page, visited_urls,
                   cycles>>

\* pagination_success = await self._smart_pagination_navigation(current_page)
SmartNavigate ==
    /\ impl = "smart" /\ pc = "navigate"
    /\ \/ \* a click went through: current_page += 1
          /\ \E u \in Urls : browser_url' = u
          /\ current_page' = current_page + 1
          /\ pc' = "while"
          /\ UNCHANGED <<consecutive_failures, stoppedAt, report, raised_at,
                         raised_ever>>
       \/ \* no strategy clicked anything: break
          /\ pc' = "done"
          /\ stoppedAt' = "nav_failed"
          /\ report' = SmartReturn(current_page, extracted_data)
          /\ UNCHANGED <<browser_url, current_page, consecutive_failures, raised_at,
                         raised_ever>>
       \/ \* a scroll raises; a click dispatched before it may have moved the page
          /\ \E u \in Urls : browser_url' = u
          /\ SmartExcept("navigate")
          /\ UNCHANGED <<current_page>>
    /\ UNCHANGED <<otherVars, run, impl, max_pages, visited_urls, extracted_data, content_hashes,
                   consecutive_same_content, last_content_hash, cycles,
                   hash_log, extract_log>>

-----------------------------------------------------------------------------
\* GTMTools.smart_paginate_and_extract

\* The loop guard holds: a cycle begins.
GtmWhileEnter ==
    /\ impl = "gtm" /\ pc = "while"
    /\ GtmGuard(current_page, consecutive_failures, max_pages)
    /\ pc' = "url"
    /\ cycles' = cycles + 1
    /\ UNCHANGED <<otherVars, run, impl, max_pages, browser_url, current_page, consecutive_failures,
                   visited_urls, extracted_data, content_hashes,
                   consecutive_same_content, last_content_hash, stoppedAt, report,
                   raised_at, raised_ever, hash_log, extract_log>>

\* The loop guard fails: consolidate and return
GtmWhileExit ==
    /\ impl = "gtm" /\ pc = "while"
    /\ ~GtmGuard(current_page, consecutive_failures, max_pages)
    /\ pc' = "done"
    /\ stoppedAt' = IF current_page > max_pages THEN "max_pages" ELSE "failures"
    /\ report' = GtmReturn(current_page, extracted_data)
    /\ UNCHANGED <<otherVars, run, impl, max_pages, browser_url, current_page, consecutive_failures,
                   visited_urls, extracted_data, content_hashes,
                   consecutive_same_content, last_content_hash, cycles,
                   raised_at, raised_ever, hash_log, extract_log>>

\* current_url = await self.browser.get_current_url(), the visited check and
\* visited_urls.add; the only call of the loop body that can raise
GtmGetUrl ==
    /\ impl = "gtm" /\ pc = "url"
    /\ \/ \* get_current_url raises: except Exception, lines 421-425
          /\ consecutive_failures' = consecutive_failures + 1
          /\ raised_at' = "url"
          /\ raised_ever' = TRUE
          /\ IF consecutive_failures + 1 >= max_consecutive_failures
             THEN /\ pc' = "done"
                  /\ stoppedAt' = "failures"
                  /\ report' = GtmReturn(current_page, extracted_data)
             ELSE /\ pc' = "while"
                  /\ UNCHANGED <<stoppedAt, report>>
          /\ UNCHANGED <<visited_urls>>
       \/ \* already visited: break
          /\ AlreadyVisited(GtmUrlKey(browser_url), visited_urls)
          /\ pc' = "done"
          /\ stoppedAt' = "visited"
          /\ report' = GtmReturn(current_page, extracted_data)
          /\ UNCHANGED <<visited_urls, consecutive_failures, raised_at, raised_ever>>
       \/ \* a new URL
          /\ ~AlreadyVisited(GtmUrlKey(browser_url), visited_urls)
          /\ visited_urls' = visited_urls \cup {GtmUrlKey(browser_url)}
          /\ pc' = "extract"
          /\ raised_at' = "none"
          /\ UNCHANGED <<consecutive_failures, stoppedAt, report, raised_ever>>
    /\ UNCHANGED <<otherVars, run, impl, max_pages, browser_url, current_page, extracted_data,
                   content_hashes, consecutive_same_content, last_content_hash,
                   cycles, hash_log, extract_log>>

\* extraction_result = await self.extract_data(query): extract_data catches every
\* exception and reports status "failed"
GtmExtract ==
    /\ impl = "gtm" /\ pc = "extract"
    /\ extract_log' = Append(extract_log, browser_url)
    /\ \/ \* status == 'completed'
          \E content \in Contents :
             /\ extracted_data' = Append(extracted_data,
                                         [url |-> browser_url, content |-> content])
             /\ consecutive_failures' = 0
             /\ UNCHANGED raised_ever
       \/ \* status == 'failed': a collaborator raised inside extract_data
          /\ consecutive_failures' = consecutive_failures + 1
          /\ raised_ever' = TRUE
          /\ UNCHANGED extracted_data
    /\ pc' = "navigate"
    /\ UNCHANGED <<otherVars, run, impl, max_pages, browser_url, current_page, visited_urls,
                   content_hashes, consecutive_same_content, last_content_hash,
                   stoppedAt, report, cycles, raised_at, hash_log>>

\* detect_pagination and the clicks, lines 357-419; neither raises
GtmNavigate ==
    /\ impl = "gtm" /\ pc = "navigate"
    /\ \/ \* not pagination_info['pagination_found']: break
          /\ pc' = "done"
          /\ stoppedAt' = "no_pagination"
          /\ report' = GtmReturn(current_page, extracted_data)
          /\ UNCHANGED <<browser_url, current_page>>
       \/ \* no click succeeded: break
          /\ pc' = "done"
          /\ stoppedAt' = "nav_failed"
          /\ report' = GtmReturn(current_page, extracted_data)
          /\ UNCHANGED <<browser_url, current_page>>
       \/ \* clicked_next: current_page += 1
          /\ \E u \in Urls : browser_url' = u
          /\ current_page' = current_page + 1
          /\ pc' = "while"
          /\ UNCHANGED <<stoppedAt, report>>
    /\ UNCHANGED <<otherVars, run, impl, max_pages, consecutive_failures, visited_urls,
                   extracted_data, content_hashes, consecutive_same_content,
                   last_content_hash, cycles, raised_at, raised_ever, hash_log,
                   extract_log>>

-----------------------------------------------------------------------------
\* extract_all_paginated_data

\* The loop guard holds: a cycle begins.
SimpleWhileEnter ==
    /\ impl = "simple" /\ pc = "while"
    /\ SimpleGuard(current_page, max_pages)
    /\ pc' = "extract"
    /\ cycles' = cycles + 1
    /\ UNCHANGED <<otherVars, run, impl, max_pages, browser_url, current_page, consecutive_failures,
                   visited_urls, extracted_data, content_hashes,
                   consecutive_same_content, last_content_hash, stoppedAt, report,
                   raised_at, raised_ever, hash_log, extract_log>>

\* The loop guard fails: consolidate and return the ActionResult
SimpleWhileExit ==
    /\ impl = "simple" /\ pc = "while"
    /\ ~SimpleGuard(current_page, max_pages)
    /\ pc' = "done"
    /\ stoppedAt' = "max_pages"
    /\ report' = SimpleReturn(extracted_data)
    /\ UNCHANGED <<otherVars, run, impl, max_pages, browser_url, current_page, consecutive_failures,
                   visited_urls, extracted_data, content_hashes,
                   consecutive_same_content, last_content_hash, cycles,
                   raised_at, raised_ever, hash_log, extract_log>>

\* Scroll, get_current_page_url, the DOM read and the LLM call, lines 515-566; an
\* exception of any of them leaves the function through the outer except
SimpleExtract ==
    /\ impl = "simple" /\ pc = "extract"
    /\ extract_log' = Append(extract_log, browser_url)
    /\ \/ \* a collaborator raises or the LLM times out
          /\ pc' = "done"
          /\ stoppedAt' = "error"
          /\ report' = SimpleError
          /\ raised_at' = "extract"
          /\ raised_ever' = TRUE
          /\ UNCHANGED extracted_data
       \/ \E content \in Contents :
             /\ extracted_data' = Append(extracted_data,
                     [page |-> current_page, url |-> browser_url, content |-> content])
             /\ pc' = "navigate"
             /\ UNCHANGED <<stoppedAt, report, raised_at, raised_ever>>
    /\ UNCHANGED <<otherVars, run, impl, max_pages, browser_url, current_page, consecutive_failures,
                   visited_urls, content_hashes, consecutive_same_content,
                   last_content_hash, cycles, hash_log>>

\* pagination_result = await self.detect_pagination(browser_session), line 569.
\* detect_pagination is a function local to _register_core_actions that is only
\* registered as an action; SimpleTools has no attribute of that name, so the
\* attribute lookup raises AttributeError before anything is awaited and the outer
\* except returns the error result.  Lines 570-620 (the has_pagination test, the
\* clicks and current_page += 1) are not reached.
SimpleNavigate ==
    /\ impl = "simple" /\ pc = "navigate"
    /\ pc' = "done"
    /\ stoppedAt' = "error"
    /\ report' = SimpleError
    /\ raised_at' = "navigate"
    /\ raised_ever' = TRUE
    /\ UNCHANGED <<otherVars, run, impl, max_pages, browser_url, current_page,
                   consecutive_failures, visited_urls, extracted_data, content_hashes,
                   consecutive_same_content, last_content_hash, cycles, hash_log,
                   extract_log>>

-----------------------------------------------------------------------------
Next ==
    \/ SmartWhileEnter
    \/ SmartWhileExit
    \/ SmartGetUrl
    \/ SmartExtract
    \/ SmartNavigate
    \/ GtmWhileEnter
    \/ GtmWhileExit
    \/ GtmGetUrl
    \/ GtmExtract
    \/ GtmNavigate
    \/ SimpleWhileEnter
    \/ SimpleWhileExit
    \/ SimpleExtract
    \/ SimpleNavigate

Spec == Init /\ [][Next]_vars

-----------------------------------------------------------------------------
\* Cancellation of the task that runs a loop.

\* The loop awaits a collaborator at these positions; the simple loop raises at
\* its navigation step before it awaits anything.
SuspensionPoints ==
    IF impl = "simple" THEN {"extract"} ELSE {"url", "extract", "navigate"}

\* asyncio raises CancelledError at the await the loop is suspended in.  It is a
\* BaseException, so neither "except Exception" of the loops catches it: the
\* coroutine ends without a return value.
Cancel ==
    /\ pc \in SuspensionPoints
    /\ pc' = "done"
    /\ stoppedAt' = "cancelled"
    /\ report' = NoReport
    /\ UNCHANGED <<otherVars, run, impl, max_pages, browser_url, current_page,
                   consecutive_failures, visited_urls, extracted_data, content_hashes,
                   consecutive_same_content, last_content_hash, cycles, raised_at,
                   raised_ever, hash_log, extract_log>>

CancelNext ==
    \/ Next
    \/ Cancel

CancelSpec == Init /\ [][CancelNext]_vars

-----------------------------------------------------------------------------
\* A second call of the loop on the same object.

\* Calls of the loop on one object
MaxRuns == 2

\* The loop is called again after it returned.  Every loop starts from its locals
\* (current_page = 1, consecutive_failures = 0; in gtm and simple also the visited
\* set and the result list); visited_urls, extracted_data, content_hashes,
\* consecutive_same_content and last_content_hash of SmartPaginationExtractor are
\* attributes set in __init__ only, so the smart loop starts from what the earlier
\* run left in them.  The caller may have opened any page before the call.
Rerun ==
    /\ pc = "done"
    /\ run < MaxRuns
    /\ run' = run + 1
    /\ pc' = "while"
    /\ current_page' = 1
    /\ consecutive_failures' = 0
    /\ \E u \in Urls : browser_url' = u
    /\ IF impl = "smart"
       THEN UNCHANGED <<visited_urls, extracted_data>>
       ELSE visited_urls' = {} /\ extracted_data' = <<>>
    /\ stoppedAt' = "none"
    /\ report' = NoReport
    /\ cycles' = 0
    /\ raised_at' = "none"
    /\ raised_ever' = FALSE
    /\ hash_log' = <<>>
    /\ extract_log' = <<>>
    /\ UNCHANGED <<otherVars, impl, max_pages, content_hashes,
                   consecutive_same_content, last_content_hash>>

RerunInit == Init /\ max_pages <= 1

RerunNext ==
    \/ Next
    \/ Rerun

RerunSpec == RerunInit /\ [][RerunNext]_vars

-----------------------------------------------------------------------------
\* AgentOrchestrator.run (src/gtm_agent/gtm_agent/orchestrator.py)

\* max_steps ranges over 1..MaxStepsBound
MaxStepsBound == 3

\* The tools registered with the orchestrator (cli.py:44-48)
ToolNames == {"observe_page", "scroll_page", "click_link_text", "company_extract"}

\* The pagination candidates an observation can list: none, one control known by
\* its text only, and a rel="next" node without text or href followed by a link
\* with an href and a text-only control.
CandidateLists ==
    { <<>>,
      <<[text |-> "Next", href |-> ""]>>,
      <<[text |-> "", href |-> ""], [text |-> "Next", href |-> "/p2"],
        [text |-> "More", href |-> ""]>> }

\* No observation, no extraction (None)
NoObservation == [type |-> "none", is_at_bottom |-> "none", pagination_candidates |-> <<>>]

NoExtraction == [source |-> "none", count |-> 0]

\* The observation of ObservePageTool
PageState(bottom, candidates) ==
    [type |-> "page_state", is_at_bottom |-> bottom, pagination_candidates |-> candidates]

\* The observation of a click or scroll tool: an event, without page state
EventObservation == [type |-> "event", is_at_bottom |-> "none", pagination_candidates |-> <<>>]

\* ToolAction(tool_name, params, is_terminal); of the params the model keeps the
\* key a successful click_link_text records (candidate_key or link_text)
ToolAction(tool_name, key, is_terminal) ==
    [tool_name |-> tool_name, key |-> key, is_terminal |-> is_terminal]

NoAction == ToolAction("none", "", FALSE)

\* What planner.select_action can return: any registered tool, a tool that is not
\* registered, or the terminal action
PlannerActions ==
    { ToolAction(t, IF t = "click_link_text" THEN "Next" ELSE "", FALSE) :
          t \in ToolNames \cup {"bogus"} }
    \cup { ToolAction("stop", "", TRUE) }

\* ToolResult(success, error, observation, extraction), and what the tool did to
\* context.artifacts and context.notes while it ran
ToolResult(success, error, observation, extraction, pending, visited, notes) ==
    [success |-> success, error |-> error, observation |-> observation,
     extraction |-> extraction, pending_observe |-> pending, visited |-> visited,
     notes |-> notes]

\* ObservePageTool.execute: fails without a page, else returns the page state
ObservePageResults ==
    { ToolResult(FALSE, "No active page bound to context", NoObservation, NoExtraction,
                 FALSE, {}, <<>>) }
    \cup { ToolResult(TRUE, "", PageState(b, c), NoExtraction, FALSE, {}, <<>>) :
               b \in {"true", "false"}, c \in CandidateLists }

\* ScrollPageTool.execute: a caught exception gives success = False, else an event
\* observation and pending_observe
ScrollPageResults ==
    { ToolResult(FALSE, "scroll failed", NoObservation, NoExtraction, FALSE, {}, <<>>),
      ToolResult(TRUE, "", EventObservation, NoExtraction, TRUE, {}, <<>>) }

\* ClickLinkTextTool.execute: on success the key enters visited_pagination and
\* pending_observe is set
ClickLinkTextResults(key) ==
    { ToolResult(FALSE, "click failed", NoObservation, NoExtraction, FALSE, {}, <<>>),
      ToolResult(TRUE, "", EventObservation, NoExtraction, TRUE, {key}, <<>>) }

\* CompanyExtractionTool.execute: fails without a page, else returns an extraction
\* and notes its source
CompanyExtractResults ==
    { ToolResult(FALSE, "No active page bound to context", NoObservation, NoExtraction,
                 FALSE, {}, <<>>),
      ToolResult(TRUE, "", NoObservation, [source |-> "dom_llm_refine", count |-> 1],
                 FALSE, {}, << <<"company_extract::source">> >>) }

\* tool.execute(context, **action.params)
ToolResults(act) ==
    CASE act.tool_name = "observe_page"    -> ObservePageResults
      [] act.tool_name = "scroll_page"     -> ScrollPageResults
      [] act.tool_name = "click_link_text" -> ClickLinkTextResults(act.key)
      [] OTHER                             -> CompanyExtractResults

\* AgentContext(goal, url, config): step_count 0, completed False, empty lists;
\* of artifacts the model keeps pending_observe and visited_pagination
NewContext ==
    [step_count |-> 0, completed |-> FALSE, notes |-> <<>>, observations |-> <<>>,
     extractions |-> <<>>, pending_observe |-> FALSE, visited_pagination |-> {}]

\* The loop runs until the planner's stop is accepted
AgentGuard_NoBudget(ctx, limit) == ~ctx.completed

\* while not context.completed and context.step_count < self.config.max_steps
AgentGuard(ctx, limit) == ~ctx.completed /\ ctx.step_count < limit

\* AgentContext.add_observation, with the order reversed
add_observation_front(observations, observation) == <<observation>> \o observations

\* AgentContext.add_observation
add_observation(observations, observation) == Append(observations, observation)

\* AgentContext.add_extraction
add_extraction(extractions, extraction) == Append(extractions, extraction)

\* The loop never stops on a failed tool
BreakOnFailure_Never(result) == FALSE

\* if not result.success: break
BreakOnFailure(result) == ~result.success

\* key = href or text
CandidateKey(candidate) == IF candidate.href # "" THEN candidate.href ELSE candidate.text

\* Mutant: the visited keys are not consulted
FreshCandidates_All(candidates, visited) ==
    SelectSeq(candidates, LAMBDA c : CandidateKey(c) # "")

\* The candidates _pagination_followup_action does not skip
FreshCandidates(candidates, visited) ==
    SelectSeq(candidates,
              LAMBDA c : CandidateKey(c) # "" /\ CandidateKey(c) \notin visited)

\* _pagination_followup_action: click the first candidate whose key is not visited
pagination_followup_action(ctx, observation) ==
    LET fresh == FreshCandidates(observation.pagination_candidates,
                                 ctx.visited_pagination)
    IN  IF fresh = <<>> THEN NoAction
        ELSE ToolAction("click_link_text", CandidateKey(fresh[1]), FALSE)

\* Mutant: the pagination follow-up is tried before the scroll
next_continuation_action_PaginationFirst(ctx) ==
    IF ctx.observations = <<>> THEN NoAction
    ELSE LET last_observation == ctx.observations[Len(ctx.observations)]
             pagination_action == pagination_followup_action(ctx, last_observation)
         IN  IF pagination_action # NoAction THEN pagination_action
             ELSE IF /\ last_observation.type = "page_state"
                     /\ last_observation.is_at_bottom = "false"
             THEN ToolAction("scroll_page", "", FALSE)
             ELSE NoAction

\* _next_continuation_action: scroll on when the last observation is a page state
\* that is not at the bottom, else follow the pagination; NoAction stands for None
next_continuation_action(ctx) ==
    IF ctx.observations = <<>> THEN NoAction
    ELSE LET last_observation == ctx.observations[Len(ctx.observations)]
         IN  IF /\ last_observation.type = "page_state"
                /\ last_observation.is_at_bottom = "false"
             THEN ToolAction("scroll_page", "", FALSE)
             ELSE pagination_followup_action(ctx, last_observation)

\* Mutant: the context is returned as the loop left it
Returned_AsLeft(ctx, limit) == ctx

\* Line 135: context.completed = context.completed or step_count >= max_steps
Returned(ctx, limit) ==
    [ctx EXCEPT !.completed = ctx.completed \/ ctx.step_count >= limit]

\* A tool.execute call as the history records it
Executed(act, by, result) ==
    [tool_name |-> act.tool_name, key |-> act.key, by |-> by, success |-> result.success,
     error |-> result.error, observation |-> result.observation,
     extraction |-> result.extraction]

AgentInit ==
    /\ max_steps \in 1..MaxStepsBound
    /\ agent_pc = "select"
    /\ context = NewContext
    /\ action = NoAction
    /\ planner_log = <<>>
    /\ tool_log = <<>>
    /\ LoopIdle /\ DetectIdle /\ NavIdle /\ ExtractIdle
    /\ NormIdle /\ PlannerIdle /\ GtmAgentIdle

\* The loop guard fails: line 135 and return context
AgentLoopExit ==
    /\ agent_pc = "select"
    /\ ~AgentGuard(context, max_steps)
    /\ context' = Returned(context, max_steps)
    /\ agent_pc' = "returned"
    /\ UNCHANGED <<max_steps, action, planner_log, tool_log>>
    /\ UNCHANGED <<loopVars, detectVars, navVars, extractVars, normVars, plannerVars, gtmAgentVars>>

\* planner.select_action raises: run has no handler, the exception leaves run
AgentPlannerRaises ==
    /\ agent_pc = "select"
    /\ AgentGuard(context, max_steps)
    /\ agent_pc' = "raised"
    /\ UNCHANGED <<max_steps, context, action, planner_log, tool_log>>
    /\ UNCHANGED <<loopVars, detectVars, navVars, extractVars, normVars, plannerVars, gtmAgentVars>>

\* Lines 84-102: the planner's action, its rationale note, the continuation that
\* overrides a terminal action, and the tool lookup
AgentSelect ==
    /\ agent_pc = "select"
    /\ AgentGuard(context, max_steps)
    /\ \E chosen \in PlannerActions :
          LET noted == [context EXCEPT
                           !.notes = Append(@, <<"rationale", chosen.tool_name>>)]
              continuation == next_continuation_action(noted)
              overridden == [noted EXCEPT
                                !.notes = Append(@, <<"override", continuation.tool_name>>)]
              act == IF chosen.is_terminal THEN continuation ELSE chosen
              ctx == IF chosen.is_terminal THEN overridden ELSE noted
          IN  /\ planner_log' = Append(planner_log, chosen)
              /\ IF chosen.is_terminal /\ continuation = NoAction
                 THEN \* context.completed = True; break
                      /\ context' = Returned([noted EXCEPT !.completed = TRUE], max_steps)
                      /\ agent_pc' = "returned"
                      /\ UNCHANGED action
                 ELSE IF act.tool_name \notin ToolNames
                 THEN \* unknown tool: break
                      /\ context' = Returned(
                             [ctx EXCEPT !.notes = Append(@, <<"unknown tool", act.tool_name>>)],
                             max_steps)
                      /\ agent_pc' = "returned"
                      /\ UNCHANGED action
                 ELSE /\ context' = ctx
                      /\ action' = [act EXCEPT !.is_terminal = chosen.is_terminal]
                      /\ agent_pc' = "execute"
    /\ UNCHANGED <<max_steps, tool_log>>
    /\ UNCHANGED <<loopVars, detectVars, navVars, extractVars, normVars, plannerVars, gtmAgentVars>>

\* The context after tool.execute returned this result: lines 105-116, and what
\* the tool itself wrote into the context
AfterExecute(ctx, act, result) ==
    LET summary == IF result.success
                   THEN <<"executed", act.tool_name, "success">>
                   ELSE <<"executed", act.tool_name, "failure", result.error>>
    IN  [ctx EXCEPT
            !.step_count = @ + 1,
            !.notes = Append(@ \o result.notes, summary),
            !.observations = IF result.observation # NoObservation
                             THEN add_observation(@, result.observation) ELSE @,
            !.extractions = IF result.extraction # NoExtraction
                            THEN add_extraction(@, result.extraction) ELSE @,
            !.pending_observe = @ \/ result.pending_observe,
            !.visited_pagination = @ \cup result.visited]

\* Lines 104-133: execute the tool, count the step, note the outcome, keep the
\* observation and the extraction, break on failure, else see whether an automatic
\* observation is pending
AgentExecute ==
    /\ agent_pc = "execute"
    /\ \E result \in ToolResults(action) :
          LET ctx == AfterExecute(context, action, result)
          IN  /\ tool_log' = Append(tool_log,
                     Executed(action, IF action.is_terminal THEN "continuation"
                                      ELSE "planner", result))
              /\ IF BreakOnFailure(result)
                 THEN /\ context' = Returned(ctx, max_steps)
                      /\ agent_pc' = "returned"
                 ELSE \* context.artifacts.pop("pending_observe", False)
                      /\ context' = [ctx EXCEPT !.pending_observe = FALSE]
                      /\ agent_pc' = IF ctx.pending_observe THEN "observe" ELSE "select"
    /\ action' = NoAction
    /\ UNCHANGED <<max_steps, planner_log>>
    /\ UNCHANGED <<loopVars, detectVars, navVars, extractVars, normVars, plannerVars, gtmAgentVars>>

\* tool.execute raises (ObservePageTool has no handler around its page calls)
AgentToolRaises ==
    /\ agent_pc \in {"execute", "observe"}
    /\ agent_pc = "execute" => action.tool_name = "observe_page"
    /\ agent_pc' = "raised"
    /\ UNCHANGED <<max_steps, context, action, planner_log, tool_log>>
    /\ UNCHANGED <<loopVars, detectVars, navVars, extractVars, normVars, plannerVars, gtmAgentVars>>

\* Lines 121-131: the automatic observation after a scroll or a click
AgentAutoObserve ==
    /\ agent_pc = "observe"
    /\ \E result \in ObservePageResults :
          LET observed == [context EXCEPT
                  !.observations = IF result.observation # NoObservation
                                   THEN add_observation(@, result.observation) ELSE @]
          IN  /\ tool_log' = Append(tool_log,
                     Executed(ToolAction("observe_page", "", FALSE), "auto", result))
              /\ IF result.success
                 THEN /\ context' = [observed EXCEPT
                                        !.notes = Append(@, <<"auto-observed">>)]
                      /\ agent_pc' = "select"
                 ELSE /\ context' = Returned(
                            [observed EXCEPT
                                !.notes = Append(@, <<"auto-observed", "failure",
                                                      result.error>>)],
                            max_steps)
                      /\ agent_pc' = "returned"
    /\ UNCHANGED <<max_steps, action, planner_log>>
    /\ UNCHANGED <<loopVars, detectVars, navVars, extractVars, normVars, plannerVars, gtmAgentVars>>

AgentNext ==
    \/ AgentLoopExit
    \/ AgentPlannerRaises
    \/ AgentSelect
    \/ AgentExecute
    \/ AgentToolRaises
    \/ AgentAutoObserve

AgentSpec == AgentInit /\ [][AgentNext]_vars

\* Every call that run awaits returns or raises, so run keeps taking steps
AgentLiveSpec == AgentInit /\ [][AgentNext]_vars /\ WF_vars(AgentNext)

-----------------------------------------------------------------------------
\* detect_pagination (src/browser_use/tools/simple_tools.py)

\* Elements in the selector map: at most MaxElements
MaxElements == 3

\* The words an element's text and attributes are made of, and the patterns of the
\* detection each of them contains as a substring ("digit" stands for a match of
\* \b\d{1,3}\b).
WordHas ==
    [w \in {"next", ">", "2", "click", "link"} |->
        CASE w = "next"       -> {"next"}
          [] w = ">"          -> {">"}
          [] w = "2"          -> {"digit"}
          [] w = "click"      -> {"click"}
          [] w = "link"       -> {"link"}
          [] OTHER            -> {}]

\* The same for the href values
HrefHas ==
    [h \in {"", "?page=2", "/about"} |->
        CASE h = "?page=2" -> {"digit", "pag", "page", "page="}
          [] OTHER         -> {}]

\* The kinds of element a page is made of: a Next link, a ">" link, a page link
\* with number and href, a bare page number, a Next link that also shows a number,
\* a link that says "click link", an input field and an element without attributes.
ElementKinds ==
    { [has_attributes |-> TRUE,  node_name |-> "a",     words |-> {"next"},          href |-> ""],
      [has_attributes |-> TRUE,  node_name |-> "a",     words |-> {">"},             href |-> ""],
      [has_attributes |-> TRUE,  node_name |-> "a",     words |-> {"2"},             href |-> "?page=2"],
      [has_attributes |-> TRUE,  node_name |-> "span",  words |-> {"2"},             href |-> ""],
      [has_attributes |-> TRUE,  node_name |-> "a",     words |-> {"next", "2"},     href |-> ""],
      [has_attributes |-> TRUE,  node_name |-> "a",     words |-> {"click", "link"}, href |-> "/about"],
      [has_attributes |-> TRUE,  node_name |-> "input", words |-> {"next"},          href |-> ""],
      [has_attributes |-> FALSE, node_name |-> "a",     words |-> {"next"},          href |-> ""] }

\* An element of the selector map under its index
Element(idx, kind) ==
    [index |-> idx, has_attributes |-> kind.has_attributes, node_name |-> kind.node_name,
     words |-> kind.words, href |-> kind.href]

\* next_patterns, pagination_classes, the href patterns and the clickability words
next_patterns == {"next", ">", "forward", "continue", "mehr", "siguiente"}

pagination_classes == {"pag", "next", "page", "nav", "btn", "link"}

href_patterns == {"page=", "/page/", "p="}

click_words == {"click", "button", "link"}

\* The patterns found in combined_text: the element's texts, attributes and href
CombinedText(e) == UNION {WordHas[w] : w \in e.words} \cup HrefHas[e.href]

\* if element.node_name.lower() in ['a', 'button', 'span', 'div']
IsClickableNode(e) == e.node_name \in {"a", "button", "span", "div"}

\* The conditions of the five score contributions
MatchesNext(e) == CombinedText(e) \cap next_patterns # {}

MatchesNumber(e) == "digit" \in CombinedText(e)

MatchesClass(e) == CombinedText(e) \cap pagination_classes # {}

MatchesHref(e) == HrefHas[e.href] \cap href_patterns # {}

MatchesClick(e) == CombinedText(e) \cap click_words # {}

\* The weights of the contributions
NextWeight == 3

NumberWeight == 2

ClassWeight == 1

HrefWeight == 2

ClickWeight == 1

\* Lines 392-425: every contribution is added on its own
Score(e) ==
    IF ~IsClickableNode(e) THEN 0
    ELSE (IF MatchesNext(e) THEN NextWeight ELSE 0)
       + (IF MatchesNumber(e) THEN NumberWeight ELSE 0)
       + (IF MatchesClass(e) THEN ClassWeight ELSE 0)
       + (IF MatchesHref(e) THEN HrefWeight ELSE 0)
       + (IF MatchesClick(e) THEN ClickWeight ELSE 0)

\* element_type: each matching test overwrites the type set by the one before
ElementType(e) ==
    IF ~IsClickableNode(e) THEN "unknown"
    ELSE IF MatchesHref(e) THEN "page_link"
    ELSE IF MatchesNumber(e) THEN "page_number"
    ELSE IF MatchesNext(e) THEN "next_button"
    ELSE "unknown"

\* Lines 367-435: the candidates, in the order of the selector map
RECURSIVE Candidates(_)
Candidates(elements) ==
    IF elements = <<>> THEN <<>>
    ELSE LET e == Head(elements)
             rest == Candidates(Tail(elements))
         IN  IF e.has_attributes /\ Score(e) > 0
             THEN <<[index |-> e.index, score |-> Score(e), type |-> ElementType(e)]>>
                  \o rest
             ELSE rest

\* Insert a candidate behind every candidate whose score is not smaller
RECURSIVE InsertByScore(_, _)
InsertByScore(sorted, c) ==
    IF sorted = <<>> THEN <<c>>
    ELSE IF Head(sorted).score >= c.score
         THEN <<Head(sorted)>> \o InsertByScore(Tail(sorted), c)
         ELSE <<c>> \o sorted

\* The candidates left in their order
SortByScore_None(candidates) == candidates

\* candidates.sort(key=lambda x: x['score'], reverse=True): stable, descending
RECURSIVE SortByScore(_)
SortByScore(candidates) ==
    IF candidates = <<>> THEN <<>>
    ELSE InsertByScore(SortByScore(SubSeq(candidates, 1, Len(candidates) - 1)),
                       candidates[Len(candidates)])

\* A next button needs a higher score
QualifiesAsNext_Strict(c) == c.type = "next_button" /\ c.score >= 5

\* c['type'] == 'next_button' and c['score'] >= 3
QualifiesAsNext(c) == c.type = "next_button" /\ c.score >= 3

\* c['type'] in ['page_number', 'page_link'] and c['score'] >= 2
QualifiesAsPage(c) == c.type \in {"page_number", "page_link"} /\ c.score >= 2

\* page_numbers[:5]
FirstFive(seq) == SubSeq(seq, 1, IF Len(seq) < 5 THEN Len(seq) ELSE 5)

\* candidates[:10]
FirstTen(seq) == SubSeq(seq, 1, IF Len(seq) < 10 THEN Len(seq) ELSE 10)

\* pagination_info as line 349 sets it up; next_button_index 0 stands for None
NoPagination ==
    [error |-> FALSE, has_pagination |-> FALSE, next_button_index |-> 0,
     page_buttons |-> <<>>, pagination_type |-> "none", all_candidates |-> <<>>]

\* Lines 437-454: sort, pick the next buttons and the page numbers, decide
Classify(candidates) ==
    LET sorted == SortByScore(candidates)
        next_buttons == SelectSeq(sorted, QualifiesAsNext)
        page_numbers == SelectSeq(sorted, QualifiesAsPage)
        info == [NoPagination EXCEPT !.all_candidates = FirstTen(sorted)]
    IN  IF next_buttons # <<>>
        THEN [info EXCEPT !.has_pagination = TRUE,
                          !.next_button_index = next_buttons[1].index,
                          !.pagination_type = "next_button"]
        ELSE IF page_numbers # <<>>
        THEN [info EXCEPT
                 !.has_pagination = TRUE,
                 !.page_buttons = FirstFive([i \in 1..Len(page_numbers) |->
                                                page_numbers[i].index]),
                 !.pagination_type = "page_numbers"]
        ELSE info

\* detect_pagination on these elements
detect_pagination(elements) == Classify(Candidates(elements))

\* ActionResult(error=...): no metadata
DetectError == [NoPagination EXCEPT !.error = TRUE]

\* The selector maps of the model: up to MaxElements elements of any kind, indexed
\* in ascending or in descending order
SelectorMaps ==
    UNION { { [i \in 1..n |-> Element(IF ascending THEN i ELSE n + 1 - i, kinds[i])] :
                  kinds \in [1..n -> ElementKinds], ascending \in BOOLEAN } :
            n \in 0..MaxElements }

DetectInit ==
    /\ detect_pc = "start"
    /\ selector_map \in SelectorMaps
    /\ pagination_info = NoPagination
    /\ LoopIdle /\ AgentIdle /\ NavIdle /\ ExtractIdle
    /\ NormIdle /\ PlannerIdle /\ GtmAgentIdle

\* detect_pagination returns its analysis
DetectPagination ==
    /\ detect_pc = "start"
    /\ pagination_info' = detect_pagination(selector_map)
    /\ detect_pc' = "done"
    /\ UNCHANGED selector_map
    /\ UNCHANGED <<loopVars, agentVars, navVars, extractVars, normVars, plannerVars, gtmAgentVars>>

\* get_selector_map or get_current_page_url raises: the error result
DetectFails ==
    /\ detect_pc = "start"
    /\ pagination_info' = DetectError
    /\ detect_pc' = "failed"
    /\ UNCHANGED selector_map
    /\ UNCHANGED <<loopVars, agentVars, navVars, extractVars, normVars, plannerVars, gtmAgentVars>>

DetectNext ==
    \/ DetectPagination
    \/ DetectFails

DetectSpec == DetectInit /\ [][DetectNext]_vars

-----------------------------------------------------------------------------
\* The navigation step: GTMTools.smart_paginate_and_extract, lines 363-416, and
\* SmartPaginationExtractor._smart_pagination_navigation

\* Elements on the page of the navigation: at most MaxNavElements
MaxNavElements == 2

\* The page the navigation starts from: at most MaxNavPage
MaxNavPage == 2

\* The texts of the page's pagination controls
NavTexts == {"Next", "2", "3"}

\* A control of the page: its text, whether the detection reported it
\* (pagination_elements of gtm), whether it sits in the top or the bottom third of
\* the page, and whether a click on it goes through (for gtm: it is an <a> that
\* click_element's a:contains finds; for smart: the node exists and the click
\* event does not raise).
NavElements ==
    [text : NavTexts, detected : BOOLEAN, position : {"top", "bottom"}, clicks : BOOLEAN]

NavPages ==
    UNION { { [i \in 1..n |-> [index |-> i, text |-> els[i].text,
                               detected |-> els[i].detected,
                               position |-> els[i].position,
                               clicks |-> els[i].clicks]] :
                  els \in [1..n -> NavElements] } :
            n \in 0..MaxNavElements }

\* 'next' in elem['text'].lower() or '>' in elem['text']
HasNextText(e) == e.text = "Next"

\* elem['text'].strip().isdigit()
IsDigitText(e) == e.text \in {"2", "3"}

\* browser.click_element('a:contains("<text>")'): true when an <a> with this text
\* in it exists
click_element(elements, text) ==
    \E i \in 1..Len(elements) : elements[i].clicks /\ elements[i].text = text

\* pagination_info['pagination_elements']
pagination_elements(elements) == SelectSeq(elements, LAMBDA e : e.detected)

\* Lines 370-385: the Next buttons in turn, each by its own text and then by the
\* text "Next"; the tries made, and whether one clicked
RECURSIVE ClickNextButtons(_, _)
ClickNextButtons(elements, next_buttons) ==
    IF next_buttons = <<>> THEN [tries |-> <<>>, clicked_next |-> FALSE]
    ELSE LET text_to_click == Head(next_buttons).text
         IN  IF click_element(elements, text_to_click)
             THEN [tries |-> <<<<"next_button", text_to_click>>>>, clicked_next |-> TRUE]
             ELSE IF click_element(elements, "Next")
             THEN [tries |-> <<<<"next_button", text_to_click>>, <<"next_fallback", "Next">>>>,
                   clicked_next |-> TRUE]
             ELSE LET rest == ClickNextButtons(elements, Tail(next_buttons))
                  IN  [tries |-> <<<<"next_button", text_to_click>>,
                                   <<"next_fallback", "Next">>>> \o rest.tries,
                       clicked_next |-> rest.clicked_next]

\* common_pagination_texts ("arrow" is the arrow character)
common_pagination_texts == <<"Next", ">", "arrow", "2", "3">>

\* Lines 403-411: the common texts in turn until one clicks
RECURSIVE ClickCommonTexts(_, _)
ClickCommonTexts(elements, texts) ==
    IF texts = <<>> THEN [tries |-> <<>>, clicked_next |-> FALSE]
    ELSE IF click_element(elements, Head(texts))
         THEN [tries |-> <<<<"common", Head(texts)>>>>, clicked_next |-> TRUE]
         ELSE LET rest == ClickCommonTexts(elements, Tail(texts))
              IN  [tries |-> <<<<"common", Head(texts)>>>> \o rest.tries,
                   clicked_next |-> rest.clicked_next]

\* _detect_pagination_at_position: the first five controls at this position; every
\* text of NavTexts matches one of next_patterns + page_patterns
DetectedAt(elements, position) ==
    FirstFive(SelectSeq(elements, LAMBDA e : e.position = position))

\* _try_pagination_click: the controls with 'next' or '>' in their text in turn
\* until a click goes through
RECURSIVE TryPaginationClick(_)
TryPaginationClick(found) ==
    IF found = <<>> THEN [tries |-> <<>>, clicked_next |-> FALSE]
    ELSE IF ~HasNextText(Head(found)) THEN TryPaginationClick(Tail(found))
    ELSE IF Head(found).clicks
         THEN [tries |-> <<<<"next_button", Head(found).index>>>>, clicked_next |-> TRUE]
         ELSE LET rest == TryPaginationClick(Tail(found))
              IN  [tries |-> <<<<"next_button", Head(found).index>>>> \o rest.tries,
                   clicked_next |-> rest.clicked_next]

NavInit ==
    /\ nav_impl \in {"gtm", "smart"}
    /\ nav_pc = IF nav_impl = "gtm" THEN "detect" ELSE "bottom"
    /\ nav_page \in 1..MaxNavPage
    /\ nav_elements \in NavPages
    /\ nav_log = <<>>
    /\ nav_result = FALSE
    /\ LoopIdle /\ AgentIdle /\ DetectIdle /\ ExtractIdle
    /\ NormIdle /\ PlannerIdle /\ GtmAgentIdle

NavUnchanged ==
    UNCHANGED <<nav_impl, nav_page, nav_elements, loopVars, agentVars, detectVars, extractVars,
                normVars, plannerVars, gtmAgentVars>>

\* gtm, lines 356-361: no pagination found ends the loop without a click
GtmNoPagination ==
    /\ nav_impl = "gtm" /\ nav_pc = "detect"
    /\ pagination_elements(nav_elements) = <<>>
    /\ nav_pc' = "done" /\ nav_result' = FALSE
    /\ UNCHANGED nav_log
    /\ NavUnchanged

\* gtm, lines 363-385: the Next buttons
GtmNextButtons ==
    /\ nav_impl = "gtm" /\ nav_pc = "detect"
    /\ pagination_elements(nav_elements) # <<>>
    /\ LET next_buttons == SelectSeq(pagination_elements(nav_elements), HasNextText)
           r == ClickNextButtons(nav_elements, next_buttons)
       IN  /\ nav_log' = r.tries
           /\ nav_result' = r.clicked_next
    /\ nav_pc' = "page_numbers"
    /\ NavUnchanged

\* gtm, lines 387-400: if no Next button worked, the first page number
GtmPageNumbers ==
    /\ nav_impl = "gtm" /\ nav_pc = "page_numbers"
    /\ LET page_numbers == SelectSeq(pagination_elements(nav_elements), IsDigitText)
       IN  IF ~nav_result /\ page_numbers # <<>>
           THEN /\ nav_log' = Append(nav_log, <<"page_number", page_numbers[1].text>>)
                /\ nav_result' = click_element(nav_elements, page_numbers[1].text)
           ELSE UNCHANGED <<nav_log, nav_result>>
    /\ nav_pc' = "common"
    /\ NavUnchanged

\* gtm, lines 402-416: if still nothing worked, the common texts; then the outcome
GtmCommonTexts ==
    /\ nav_impl = "gtm" /\ nav_pc = "common"
    /\ IF ~nav_result
       THEN LET r == ClickCommonTexts(nav_elements, common_pagination_texts)
            IN  /\ nav_log' = nav_log \o r.tries
                /\ nav_result' = r.clicked_next
       ELSE UNCHANGED <<nav_log, nav_result>>
    /\ nav_pc' = "done"
    /\ NavUnchanged

\* smart, lines 154-161: the bottom pagination
SmartBottom ==
    /\ nav_impl = "smart" /\ nav_pc = "bottom"
    /\ LET r == TryPaginationClick(DetectedAt(nav_elements, "bottom"))
       IN  /\ nav_log' = r.tries
           /\ nav_result' = r.clicked_next
           /\ nav_pc' = IF r.clicked_next THEN "done" ELSE "top"
    /\ NavUnchanged

\* smart, lines 163-170: the top pagination
SmartTop ==
    /\ nav_impl = "smart" /\ nav_pc = "top"
    /\ LET r == TryPaginationClick(DetectedAt(nav_elements, "top"))
       IN  /\ nav_log' = nav_log \o r.tries
           /\ nav_result' = r.clicked_next
           /\ nav_pc' = IF r.clicked_next THEN "done" ELSE "load_more"
    /\ NavUnchanged

\* smart, lines 172-179: _try_load_more scrolls and returns False
SmartLoadMore ==
    /\ nav_impl = "smart" /\ nav_pc = "load_more"
    /\ nav_log' = Append(nav_log, <<"load_more", 0>>)
    /\ nav_result' = FALSE
    /\ nav_pc' = "done"
    /\ NavUnchanged

NavNext ==
    \/ GtmNoPagination
    \/ GtmNextButtons
    \/ GtmPageNumbers
    \/ GtmCommonTexts
    \/ SmartBottom
    \/ SmartTop
    \/ SmartLoadMore

NavSpec == NavInit /\ [][NavNext]_vars

-----------------------------------------------------------------------------
\* CompanyExtractor.extract (src/gtm_agent/gtm_agent/extraction.py)

\* The texts of one extraction: at most MaxDomTexts from the DOM and at most
\* MaxItems entries in a reply; max_results ranges over 1..MaxResultsBound
MaxDomTexts == 2

MaxItems == 2

MaxResultsBound == 2

\* The texts the selectors find on the page
DomTexts == {"Acme", "ACME | x", "Beta", "login"}

\* The values of the key 'name' in the entries of a reply
ItemNames == {"Acme", "1. ACME", "login"}

\* _split_name_context on the texts of the page
SplitNameContext ==
    [t \in DomTexts |->
        IF t = "ACME | x" THEN [name |-> "ACME", context |-> "x"]
        ELSE [name |-> t, context |-> "None"]]

\* _clean_name: a leading number with its punctuation is removed
CleanName == [n \in ItemNames |-> IF n = "1. ACME" THEN "ACME" ELSE n]

\* str.lower() on the names
NameLower ==
    [n \in {"Acme", "ACME", "1. ACME", "Beta", "login"} |->
        CASE n = "Acme" -> "acme"
          [] n = "ACME" -> "acme"
          [] n = "1. ACME" -> "1. acme"
          [] n = "Beta" -> "beta"
          [] OTHER -> n]

\* Mutant: every name looks like a company
LooksLikeCompany_Any(name) == TRUE

\* _looks_like_company: no banned token, at least one capitalized word
LooksLikeCompany(name) == name # "login"

\* The replies of a collaborator: no text, prose without brackets, brackets around
\* text that is not JSON, a JSON object, a JSON array, and prose around a JSON array
\* of at most one entry
ItemLists == UNION {[1..n -> ItemNames] : n \in 0..MaxItems}

Replies ==
    {[form |-> f, items |-> <<>>] : f \in {"empty", "prose", "broken_array", "object"}}
    \cup {[form |-> "array", items |-> it] : it \in ItemLists}
    \cup {[form |-> "prose_with_array", items |-> it] :
              it \in {<<>>} \cup {<<name>> : name \in ItemNames}}

\* The call raised (an error or a timeout)
Raised == [form |-> "raised", items |-> <<>>]

\* _collect_candidates: texts seen before are skipped, names that do not look like
\* a company are dropped
RECURSIVE CollectCandidates(_, _)
CollectCandidates(texts, seen_text) ==
    IF texts = <<>> THEN <<>>
    ELSE LET text == Head(texts)
         IN  IF text \in seen_text THEN CollectCandidates(Tail(texts), seen_text)
             ELSE LET rec == SplitNameContext[text]
                      rest == CollectCandidates(Tail(texts), seen_text \cup {text})
                  IN  IF LooksLikeCompany(rec.name) THEN <<rec>> \o rest ELSE rest

\* Records are never compared by name
MergeInto_Append(unique, seen, records) == unique \o records

\* The loop of _dedupe and of _merge_records: a record whose lowered name was seen
\* is skipped
RECURSIVE MergeInto(_, _, _)
MergeInto(unique, seen, records) ==
    IF records = <<>> THEN unique
    ELSE LET record == Head(records)
             key == NameLower[record.name]
         IN  IF key \in seen THEN MergeInto(unique, seen, Tail(records))
             ELSE MergeInto(Append(unique, record), seen \cup {key}, Tail(records))

_dedupe(records) == MergeInto(<<>>, {}, records)

_merge_records(existing, new_records) ==
    MergeInto(existing, {NameLower[existing[i].name] : i \in 1..Len(existing)}, new_records)

\* The loop of _parse_llm_response over the entries of the array
RECURSIVE ParseItems(_, _)
ParseItems(items, seen) ==
    IF items = <<>> THEN <<>>
    ELSE LET name == CleanName[Head(items)]
             lower_name == NameLower[name]
         IN  IF ~LooksLikeCompany(name) \/ lower_name \in seen
             THEN ParseItems(Tail(items), seen)
             ELSE <<[name |-> name, context |-> "None"]>>
                  \o ParseItems(Tail(items), seen \cup {lower_name})

\* The parse result without the fallback
_parse_llm_response_nofallback(reply, fallback) ==
    IF reply.form \in {"array", "prose_with_array"} THEN ParseItems(reply.items, {}) ELSE <<>>

\* _parse_llm_response: the text as JSON, else the part from the first "[" to the
\* last "]" as JSON, else the fallback; an empty parse gives the fallback too
_parse_llm_response(reply, fallback) ==
    LET parsed == IF reply.form \in {"array", "prose_with_array"}
                  THEN ParseItems(reply.items, {})
                  ELSE <<>>
    IN  IF parsed # <<>> THEN parsed ELSE fallback

\* seq[:n]
Take(seq, n) == SubSeq(seq, 1, IF Len(seq) < n THEN Len(seq) ELSE n)

\* The vision call's exception leaves extract
AfterVisionError_Raise == "raised"

\* Lines 230-235 and 80: the vision call's exception is caught, the records are
\* empty, and extract goes on at line 84
AfterVisionError == "llm"

\* One collaborator call in the history
Call(stage, reply) == [stage |-> stage, reply |-> reply]

ExtractInit ==
    /\ ex_pc = "collect"
    /\ extractor \in [llm : BOOLEAN, vision_llm : BOOLEAN]
    /\ extract_args \in [max_results : 1..MaxResultsBound, dom_excerpt : BOOLEAN,
                         screenshot_bytes : BOOLEAN]
    /\ dom_texts \in UNION {[1..n -> DomTexts] : n \in 0..MaxDomTexts}
    /\ combined = <<>>
    /\ ex_log = <<>>
    /\ ex_result = <<>>
    /\ LoopIdle /\ AgentIdle /\ DetectIdle /\ NavIdle
    /\ NormIdle /\ PlannerIdle /\ GtmAgentIdle

ExtractUnchanged ==
    UNCHANGED <<extractor, extract_args, dom_texts, loopVars, agentVars, detectVars, navVars,
                normVars, plannerVars, gtmAgentVars>>

\* return records[:max_results], source
Return(records, source) ==
    /\ ex_pc' = "done"
    /\ ex_result' = [records |-> Take(records, extract_args.max_results), source |-> source]

\* Lines 68-71: the candidates of the page, deduplicated
ExCollect ==
    /\ ex_pc = "collect"
    /\ combined' = _dedupe(CollectCandidates(dom_texts, {}))
    /\ ex_pc' = IF extractor.vision_llm /\ extract_args.screenshot_bytes
                THEN "vision" ELSE "llm"
    /\ UNCHANGED <<ex_log, ex_result>>
    /\ ExtractUnchanged

\* dom.query_text_all raises: nothing in extract catches it
ExCollectRaises ==
    /\ ex_pc = "collect"
    /\ ex_pc' = "raised"
    /\ ex_log' = Append(ex_log, Call("dom", Raised))
    /\ UNCHANGED <<combined, ex_result>>
    /\ ExtractUnchanged

\* Lines 73-82 with _extract_with_vision up to its first return
ExVision ==
    /\ ex_pc = "vision"
    /\ \E reply \in Replies \cup {Raised} :
        /\ ex_log' = Append(ex_log, Call("vision", reply))
        /\ IF reply = Raised
           THEN /\ ex_pc' = AfterVisionError
                /\ UNCHANGED <<combined, ex_result>>
           ELSE LET records == _parse_llm_response(reply, <<>>)
                IN  IF records # <<>>
                    THEN /\ combined' = _merge_records(
                                            combined, Take(records, extract_args.max_results))
                         /\ Return(combined', "vision_json")
                    ELSE /\ ex_pc' = IF extractor.llm THEN "vision_convert" ELSE "llm"
                         /\ UNCHANGED <<combined, ex_result>>
    /\ ExtractUnchanged

\* _convert_text_to_records(result.text, source="vision") and the rest of lines 73-82
ExVisionConvert ==
    /\ ex_pc = "vision_convert"
    /\ \E reply \in Replies \cup {Raised} :
        /\ ex_log' = Append(ex_log, Call("vision_convert", reply))
        /\ LET converted == IF reply = Raised THEN <<>>
                            ELSE Take(_parse_llm_response(reply, <<>>),
                                      extract_args.max_results)
           IN  IF converted # <<>>
               THEN /\ combined' = _merge_records(combined, converted)
                    /\ Return(combined', "vision_llm")
               ELSE /\ ex_pc' = "llm"
                    /\ UNCHANGED <<combined, ex_result>>
    /\ ExtractUnchanged

\* Lines 84-101: which stage of the text collaborator runs, if any
ExChooseLlm ==
    /\ ex_pc = "llm"
    /\ IF extractor.llm /\ combined # <<>>
       THEN ex_pc' = "refine" /\ UNCHANGED ex_result
       ELSE IF extractor.llm /\ extract_args.dom_excerpt
       THEN ex_pc' = "from_dom" /\ UNCHANGED ex_result
       ELSE Return(combined, "dom_heuristic")
    /\ UNCHANGED <<combined, ex_log>>
    /\ ExtractUnchanged

\* Lines 86-93 with _refine_with_llm
ExRefine ==
    /\ ex_pc = "refine"
    /\ \E reply \in Replies \cup {Raised} :
        /\ ex_log' = Append(ex_log, Call("refine", reply))
        /\ LET refined == IF reply = Raised THEN combined
                          ELSE _parse_llm_response(reply, combined)
           IN  IF refined # <<>>
               THEN Return(refined, "dom_llm_refine")
               ELSE Return(combined, "dom_heuristic")
    /\ UNCHANGED combined
    /\ ExtractUnchanged

\* Lines 94-103 with _extract_from_dom
ExFromDom ==
    /\ ex_pc = "from_dom"
    /\ \E reply \in Replies \cup {Raised} :
        /\ ex_log' = Append(ex_log, Call("from_dom", reply))
        /\ LET direct == IF reply = Raised THEN <<>>
                         ELSE Take(_parse_llm_response(reply, <<>>),
                                   extract_args.max_results)
           IN  IF direct # <<>>
               THEN Return(direct, "dom_llm")
               ELSE Return(combined, "dom_heuristic")
    /\ UNCHANGED combined
    /\ ExtractUnchanged

ExtractNext ==
    \/ ExCollect
    \/ ExCollectRaises
    \/ ExVision
    \/ ExVisionConvert
    \/ ExChooseLlm
    \/ ExRefine
    \/ ExFromDom

ExtractSpec == ExtractInit /\ [][ExtractNext]_vars

-----------------------------------------------------------------------------
\* SmartPaginationExtractor._normalize_url on URL strings

\* A URL string is a sequence of pieces: a scheme, ":", "//", a host, a path, ";"
\* and parameters, "?" and a query, "#" and a fragment.
SchemeTokens == {"https", "HTTPS", "about"}

\* The absolute URLs a page can have: any scheme; no authority, an empty one or a
\* host; a path that starts with "/" or, without authority, one that does not;
\* with or without parameters, query and fragment.
UrlStrings ==
    { <<scheme, ":">> \o rest[1] \o rest[2] \o params \o query \o fragment :
        scheme \in SchemeTokens,
        rest \in ({<<>>, <<"//">>, <<"//", "site">>} \X {<<>>, <<"/list">>})
                 \cup {<< <<>>, <<"blank">> >>},
        params \in {<<>>, <<";", "v=1">>},
        query \in {<<>>, <<"?", "page=2">>},
        fragment \in {<<>>, <<"#", "top">>} }

\* The schemes for which urlparse splits the parameters off the path (uses_params)
UsesParams == {<<>>, <<"https">>}

\* The part of seq before the first piece that is in stops
RECURSIVE TakeUntil(_, _)
TakeUntil(seq, stops) ==
    IF seq = <<>> \/ Head(seq) \in stops THEN <<>>
    ELSE <<Head(seq)>> \o TakeUntil(Tail(seq), stops)

\* No string has a scheme
SplitScheme_None(url) == [scheme |-> <<>>, rest |-> url]

\* urlsplit: the scheme is what precedes the first ":", lower-cased, if it is made
\* of scheme characters
SplitScheme(url) ==
    IF Len(url) >= 2 /\ url[1] \in SchemeTokens /\ url[2] = ":"
    THEN [scheme |-> <<IF url[1] = "HTTPS" THEN "https" ELSE url[1]>>,
          rest |-> SubSeq(url, 3, Len(url))]
    ELSE [scheme |-> <<>>, rest |-> url]

\* urlparse(url): scheme, netloc and path; the netloc follows "//" and ends before
\* the first "/", "?" or "#"; the path ends before "?" or "#", and for the schemes
\* of UsesParams before ";"
urlparse(url) ==
    LET split == SplitScheme(url)
        has_netloc == split.rest # <<>> /\ Head(split.rest) = "//"
        netloc == IF has_netloc THEN TakeUntil(Tail(split.rest), {"/list", "?", "#"})
                  ELSE <<>>
        after == IF has_netloc
                 THEN SubSeq(split.rest, 2 + Len(netloc), Len(split.rest))
                 ELSE split.rest
        path == TakeUntil(after, IF split.scheme \in UsesParams
                                 THEN {";", "?", "#"} ELSE {"?", "#"})
    IN  [scheme |-> split.scheme, netloc |-> netloc, path |-> path]

\* return f"{parsed.scheme}://{parsed.netloc}{parsed.path}"
_normalize_url(url) ==
    LET parsed == urlparse(url)
    IN  parsed.scheme \o <<":", "//">> \o parsed.netloc \o parsed.path

NormInit ==
    /\ norm_pc = "start"
    /\ norm_url \in UrlStrings
    /\ norm_key = <<>>
    /\ LoopIdle /\ AgentIdle /\ DetectIdle /\ NavIdle /\ ExtractIdle /\ PlannerIdle
    /\ GtmAgentIdle

\* url_key = self._normalize_url(current_url)
NormalizeOnce ==
    /\ norm_pc = "start"
    /\ norm_key' = <<_normalize_url(norm_url)>>
    /\ norm_pc' = "once"
    /\ UNCHANGED <<norm_url, loopVars, agentVars, detectVars, navVars, extractVars, plannerVars, gtmAgentVars>>

\* _normalize_url on the value it returned
NormalizeAgain ==
    /\ norm_pc = "once"
    /\ norm_key' = Append(norm_key, _normalize_url(norm_key[1]))
    /\ norm_pc' = "twice"
    /\ UNCHANGED <<norm_url, loopVars, agentVars, detectVars, navVars, extractVars, plannerVars, gtmAgentVars>>

NormNext ==
    \/ NormalizeOnce
    \/ NormalizeAgain

NormSpec == NormInit /\ [][NormNext]_vars

-----------------------------------------------------------------------------
\* LLMPlanner.select_action (src/gtm_agent/gtm_agent/planners/llm.py)

\* JSON values, and Missing for a key the payload does not have
JVal(t, v) == [t |-> t, v |-> v]

Missing == JVal("missing", "")

JNull == JVal("null", "")

EmptyDict == JVal("dict", "{}")

\* The values the keys of a payload take
ToolNameValues ==
    {Missing, JNull, JVal("str", "stop"), JVal("str", "observe_page"), JVal("str", ""),
     JVal("num", "5")}

ParamsValues ==
    {Missing, JNull, EmptyDict, JVal("dict", "{max_dom_chars: 1000}"), JVal("list", "[]"),
     JVal("str", "x")}

StopValues == {Missing, JVal("bool", "true"), JVal("bool", "false"), JVal("str", "false"),
               JVal("num", "0")}

RationaleValues == {Missing, JVal("str", "Need fresh DOM"), JVal("str", "")}

Payloads ==
    [tool_name : ToolNameValues, params : ParamsValues, stop : StopValues,
     rationale : RationaleValues]

NoPayload == [tool_name |-> Missing, params |-> Missing, stop |-> Missing, rationale |-> Missing]

\* The reply texts.  With an object in them: the object alone, in a ```json block,
\* inside prose, as the entries of an array, as the second entry of an array after a
\* number, in an array in a ```json block.  Without: prose, braces around text that
\* is not JSON, an array of numbers, an empty array, a number.
ObjectForms ==
    {"object", "code_block", "prose_with_object", "array_of_objects", "mixed_array",
     "code_block_array"}

OtherForms == {"prose", "broken_object", "array_of_scalars", "empty_array", "scalar"}

Responses ==
    {[form |-> f, payload |-> pl] : f \in ObjectForms, pl \in Payloads}
    \cup {[form |-> f, payload |-> NoPayload] : f \in OtherForms}

\* The value None
PyNone == JVal("null", "")

\* _extract_json_block: the body of the ```json block; else the text from the first
\* "{" to the brace that closes it; else from the first "[" to its bracket; else the
\* whole text.  The result is named by what json.loads makes of it.
_extract_json_block(text) ==
    CASE text.form = "code_block" -> "object"
      [] text.form = "code_block_array" -> "array_of_objects"
      [] text.form \in {"object", "prose_with_object", "array_of_objects", "mixed_array"}
             -> "object"
      [] text.form = "broken_object" -> "invalid"
      [] text.form = "array_of_scalars" -> "array_of_scalars"
      [] text.form = "empty_array" -> "empty_array"
      [] text.form = "scalar" -> "scalar"
      [] text.form = "prose" -> "invalid"

\* _parse_response: None on a JSONDecodeError; the payload if it is a dict; the first
\* entry of a non-empty list if that is a dict; else None
_parse_response(text) ==
    LET cleaned == _extract_json_block(text)
    IN  CASE cleaned = "invalid" -> PyNone
          [] cleaned = "object" -> JVal("dict", text.payload)
          [] cleaned = "array_of_objects" -> JVal("dict", text.payload)
          [] cleaned \in {"array_of_scalars", "empty_array", "scalar"} -> PyNone

\* dict.get(key): None for a missing key
Get(payload, key) == IF payload[key] = Missing THEN PyNone ELSE payload[key]

\* dict.get(key, default)
GetDefault(payload, key, default) ==
    IF payload[key] = Missing THEN default ELSE payload[key]

\* bool(value)
Truthy(value) ==
    CASE value.t \in {"missing", "null"} -> FALSE
      [] value.t = "bool" -> value.v = "true"
      [] value.t = "num" -> value.v # "0"
      [] value.t = "str" -> value.v # ""
      [] value.t = "dict" -> value.v # "{}"
      [] value.t = "list" -> value.v # "[]"

\* Every value passes for a dict
IsDict_Any(value) == TRUE

\* isinstance(params, dict)
IsDict(value) == value.t = "dict"

\* str(tool_name)
Str(value) == JVal("str", value.v)

\* ToolAction(tool_name="stop", params={}, rationale=..., is_terminal=True)
StopAction(rationale) ==
    [tool_name |-> JVal("str", "stop"), params |-> EmptyDict, rationale |-> rationale,
     is_terminal |-> TRUE]

\* Lines 40-59 of select_action
ActionOf(text) ==
    LET action_payload == _parse_response(text)
    IN  IF action_payload = PyNone
        THEN StopAction(JVal("str", "LLM response could not be parsed"))
        ELSE LET tool_name == Get(action_payload.v, "tool_name")
                 params == GetDefault(action_payload.v, "params", EmptyDict)
                 rationale == GetDefault(action_payload.v, "rationale", JVal("str", ""))
                 is_terminal == \/ Truthy(Get(action_payload.v, "stop"))
                                \/ tool_name \in {PyNone, JVal("str", "stop")}
             IN  IF (tool_name = PyNone \/ ~IsDict(params)) /\ ~is_terminal
                 THEN StopAction(JVal("str", "Planner returned incomplete payload"))
                 ELSE IF is_terminal
                 THEN StopAction(IF Truthy(rationale) THEN rationale
                                 ELSE JVal("str", "Planner requested stop"))
                 ELSE [tool_name |-> Str(tool_name), params |-> params,
                       rationale |-> rationale, is_terminal |-> FALSE]

SelectInit ==
    /\ select_pc = "start"
    /\ response \in Responses
    /\ selected = <<>>
    /\ LoopIdle /\ AgentIdle /\ DetectIdle /\ NavIdle /\ ExtractIdle /\ NormIdle
    /\ GtmAgentIdle

\* select_action returns
SelectAction ==
    /\ select_pc = "start"
    /\ selected' = ActionOf(response)
    /\ select_pc' = "returned"
    /\ UNCHANGED <<response, loopVars, agentVars, detectVars, navVars, extractVars, normVars,
                   gtmAgentVars>>

\* llm.complete raises: select_action has no handler
SelectRaises ==
    /\ select_pc = "start"
    /\ select_pc' = "raised"
    /\ UNCHANGED <<response, selected, loopVars, agentVars, detectVars, navVars, extractVars,
                   normVars, gtmAgentVars>>

SelectNext ==
    \/ SelectAction
    \/ SelectRaises

SelectSpec == SelectInit /\ [][SelectNext]_vars

-----------------------------------------------------------------------------
\* Helpers of the properties.

Range(seq) == {seq[i] : i \in DOMAIN seq}

\* The key of a URL in the running loop
UrlKey(url) == IF impl = "smart" THEN SmartUrlKey(url) ELSE GtmUrlKey(url)

\* The fingerprints of the kept page results
KeptHashes == {hash_content(extracted_data[i].content) : i \in DOMAIN extracted_data}

\* Every cycle found pagination, navigated, saw a new URL and new non-empty
\* content, no collaborator failed, and the loop ended at its guard.
IdealRun ==
    /\ max_pages >= 1
    /\ pc = "done"
    /\ stoppedAt = "max_pages"
    /\ ~raised_ever
    /\ cycles = max_pages
    /\ Len(extracted_data) = max_pages
    /\ \A i \in DOMAIN extracted_data : HasContent(extracted_data[i].content)

-----------------------------------------------------------------------------
\* C1: every run ends after finitely many cycles because of the max_pages ceiling
\* and the consecutive-failure budget: each page index up to the ceiling is tried at
\* most max_consecutive_failures times and one more round of failures ends the run,
\* so a run begins at most max_consecutive_failures * (max_pages + 1) cycles.
C1_CyclesBoundedByCeilingAndBudget ==
    cycles <= max_consecutive_failures * (max_pages + 1)

\* C2: in every reachable state at most max_pages page results have been appended.
C2_MaxPagesCeiling == Len(extracted_data) <= max_pages

C4_PartialResultsSurvive ==
    (pc = "done" /\ raised_ever) =>
        \A i \in DOMAIN extracted_data : extracted_data[i] \in Range(report.pages)

\* C5: an ideal run with max_pages = n reports pages_processed = n and the stop
\* reason MaxPagesReached.
C5_ScenarioE ==
    IdealRun =>
        /\ report.pages_processed = max_pages
        /\ "stoppedReason" \in DOMAIN report
        /\ report.stoppedReason = "MaxPagesReached"

\* C6: no navigation is issued from the page whose index is max_pages: current_page
\* never passes max_pages.
C6_NoNavigationFromLastPage == max_pages >= 1 => current_page <= max_pages

C7_KeysExtractedOnce ==
    impl \in {"smart", "gtm"} =>
        /\ \A i, j \in DOMAIN extract_log :
              i < j => UrlKey(extract_log[i]) # UrlKey(extract_log[j])
        /\ visited_urls =
              {UrlKey(extract_log[i]) : i \in DOMAIN extract_log}
                 \cup (IF pc = "extract" THEN {UrlKey(browser_url)} ELSE {})
        /\ stoppedAt = "visited" => UrlKey(browser_url) \in visited_urls

C8_FingerprintsDistinct ==
    impl = "smart" =>
        /\ \A i, j \in DOMAIN extracted_data :
              i < j => hash_content(extracted_data[i].content)
                          # hash_content(extracted_data[j].content)
        /\ content_hashes = KeptHashes

\* C8 witness: two page results are kept and a further cycle brought content that
\* was seen before and was not appended.
C8_Witness ==
    /\ impl = "smart"
    /\ Len(extracted_data) >= 2
    /\ Len(hash_log) > Len(extracted_data)

\* C9: a cycle whose extraction raised while failure budget is left is retried: the
\* run does not end at the next visited check with the budget unused.
C9_FailedCycleIsRetried ==
    ~ (/\ impl \in {"smart", "gtm"}
       /\ pc = "done"
       /\ stoppedAt = "visited"
       /\ raised_at = "extract"
       /\ consecutive_failures < max_consecutive_failures)

\* The run ended in its navigation step without a click: no strategy clicked
\* anything, or the step itself failed.
EndedAtNavigation ==
    \/ stoppedAt = "nav_failed"
    \/ stoppedAt = "error" /\ raised_at = "navigate"

\* C10: a run that ends because its navigation step could not click anything
\* completes normally: it returns no error and a result that holds every kept page
\* result, the page of the current cycle included.
C10_NavigationFailureCompletes ==
    (pc = "done" /\ EndedAtNavigation) =>
        /\ ~report.error
        /\ report.pages = extracted_data

-----------------------------------------------------------------------------
\* C11: a run cancelled at a suspension point stops and still emits a report that
\* contains every page result accumulated before the cancellation.
C11_CancelledRunEmitsPages ==
    (pc = "done" /\ stoppedAt = "cancelled") =>
        \A i \in DOMAIN extracted_data : extracted_data[i] \in Range(report.pages)

-----------------------------------------------------------------------------
\* What the smart loop returns when it kept the first page with this content,
\* navigated once and then left through the max_pages ceiling (max_pages = 1).
OnePageThenCeiling(content) ==
    SmartReturn(2, <<[page |-> 1, url |-> StartUrl, content |-> content]>>)

\* C12: the final report tells how the run ended, so two runs that ended for
\* different reasons never return the same report: a report equal to the one of a
\* run that reached max_pages comes only from a run that reached max_pages.
C12_ReportTellsStopReason ==
    (pc = "done" /\ impl = "smart") =>
        \A content \in Contents :
            (HasContent(content) /\ report = OnePageThenCeiling(content))
                => stoppedAt = "max_pages"

\* The reference run of C12 exists: a run that reached max_pages returns the report.
C12_CeilingRun ==
    /\ pc = "done" /\ impl = "smart" /\ stoppedAt = "max_pages"
    /\ \E content \in Contents :
          HasContent(content) /\ report = OnePageThenCeiling(content)

-----------------------------------------------------------------------------
\* C13 (scenario B): once the page content was identical on two consecutive cycles
\* the smart loop has stopped at the loop guard, and the pages_processed it reports
\* is the number of cycles completed before the repeat was confirmed.
C13_ScenarioB ==
    LET n == Len(hash_log)
    IN  (impl = "smart" /\ ~raised_ever /\ n >= 2 /\ hash_log[n] = hash_log[n - 1]) =>
            /\ pc = "done"
            /\ stoppedAt = "loop"
            /\ report.pages_processed = cycles - 1

-----------------------------------------------------------------------------
\* C14: the RunState is created empty at the start of each run, also of a run on an
\* extractor object that ran before: when a run begins, before its first cycle, the
\* visited URLs, the content hashes, the last hash, the duplicate and failure
\* counters and the page results are all empty.
C14_RunStateFresh ==
    (pc = "while" /\ cycles = 0) =>
        /\ visited_urls = {}
        /\ content_hashes = {}
        /\ last_content_hash = None
        /\ consecutive_same_content = 0
        /\ consecutive_failures = 0
        /\ extracted_data = <<>>

-----------------------------------------------------------------------------
\* Helpers of the orchestrator's properties.

Last(seq) == seq[Len(seq)]

\* The tool calls of the main step of the loop (line 104), the automatic
\* observations (line 123) left out
MainCalls == SelectSeq(tool_log, LAMBDA e : e.by # "auto")

\* The tool calls that executed an action the planner chose
PlannerCalls == SelectSeq(tool_log, LAMBDA e : e.by = "planner")

\* The non-terminal actions the planner returned
NonTerminalChoices == SelectSeq(planner_log, LAMBDA a : ~a.is_terminal)

\* The observations and the extractions the tool calls returned, in call order
ReturnedObservations ==
    LET with == SelectSeq(tool_log, LAMBDA e : e.observation # NoObservation)
    IN  [i \in 1..Len(with) |-> with[i].observation]

ReturnedExtractions ==
    LET with == SelectSeq(tool_log, LAMBDA e : e.extraction # NoExtraction)
    IN  [i \in 1..Len(with) |-> with[i].extraction]

\* The planner's terminal action was accepted: the run returned right after noting
\* the rationale of the stop
StopAccepted ==
    /\ agent_pc = "returned"
    /\ context.notes # <<>>
    /\ Last(context.notes) = <<"rationale", "stop">>

\* The planner's non-terminal actions are executed in the order chosen; at most the
\* latest one is not executed (yet, or because its tool is unknown)
PlannerOrderKept ==
    /\ Len(PlannerCalls) <= Len(NonTerminalChoices)
    /\ Len(NonTerminalChoices) - Len(PlannerCalls) <= 1
    /\ \A i \in 1..Len(PlannerCalls) :
          PlannerCalls[i].tool_name = NonTerminalChoices[i].tool_name

\* Observations and extractions are appended in execution order, and an accepted
\* stop completes the run without a further tool call
ResultsKeptAndStopHonoured ==
    /\ context.observations = ReturnedObservations
    /\ context.extractions = ReturnedExtractions
    /\ StopAccepted =>
          /\ context.completed
          /\ Len(MainCalls) = Len(planner_log) - 1

\* C15 as stated: the planner's actions run in the order chosen, step_count is
\* incremented exactly once per executed tool, observations and extractions are
\* appended in execution order, and an accepted stop completes the run.
C15_StepPerExecutedTool ==
    agent_pc # "idle" =>
        /\ PlannerOrderKept
        /\ context.step_count = Len(tool_log)
        /\ ResultsKeptAndStopHonoured

\* C15 amended: as stated, but step_count counts the tools executed in the main
\* step (chosen by the planner or scheduled as a continuation); the automatic
\* observe_page after a scroll or a click is executed without being counted.
C15_StepPerMainTool ==
    agent_pc # "idle" =>
        /\ PlannerOrderKept
        /\ context.step_count = Len(MainCalls)
        /\ Len(tool_log) <= 2 * context.step_count
        /\ ResultsKeptAndStopHonoured

\* C15 witness: an accepted stop after an extraction, a scroll and the automatic
\* observation that followed it.
C15_Witness ==
    /\ StopAccepted
    /\ Len(tool_log) > context.step_count
    /\ Len(context.observations) >= 2
    /\ Len(context.extractions) >= 1
    /\ Len(PlannerCalls) >= 2

\* C16: a tool result with success = false ends the run right after that step: no
\* tool call follows a failed one, step_count includes the failing step, the last
\* note records the failure with its error text, and the planner is not called
\* again.
C16_FailureStopsRun ==
    agent_pc # "idle" =>
        /\ \A i \in 1..(Len(tool_log) - 1) : tool_log[i].success
        /\ (tool_log # <<>> /\ ~Last(tool_log).success) =>
              /\ agent_pc = "returned"
              /\ context.step_count = Len(MainCalls)
              /\ Len(planner_log) = Len(MainCalls)
              /\ Last(context.notes) =
                     IF Last(tool_log).by = "auto"
                     THEN <<"auto-observed", "failure", Last(tool_log).error>>
                     ELSE <<"executed", Last(tool_log).tool_name, "failure",
                            Last(tool_log).error>>

\* C16 witness: the second step's tool failed and the run returned.
C16_Witness ==
    /\ agent_pc = "returned"
    /\ Len(tool_log) >= 2
    /\ ~Last(tool_log).success
    /\ Last(tool_log).by # "auto"
    /\ context.step_count >= 2
    /\ context.step_count < max_steps

-----------------------------------------------------------------------------
\* Properties of detect_pagination

\* The element of the selector map that has this index
ElementAt(idx) ==
    CHOOSE e \in {selector_map[i] : i \in 1..Len(selector_map)} : e.index = idx

\* The rearrangements of a list of n elements
Permutations(n) == {p \in [1..n -> 1..n] : \A i, j \in 1..n : p[i] = p[j] => i = j}

Permuted(seq, p) == [i \in 1..Len(seq) |-> seq[p[i]]]

\* The positions, in the order the candidates were seen, of those that qualify as a
\* next button and of those that qualify as a page number or page link
NextPositions(c) == {i \in 1..Len(c) : c[i].type = "next_button" /\ c[i].score >= 3}

PagePositions(c) ==
    {i \in 1..Len(c) : c[i].type \in {"page_number", "page_link"} /\ c[i].score >= 2}

\* C17: the analysis reports pagination exactly when a candidate is a next button
\* with score >= 3 or a page number or page link with score >= 2; with a qualifying
\* next button the type is next_button and the chosen index is that of the
\* highest-scored one, the first seen among equals; otherwise the type is
\* page_numbers; with no candidate, or none that qualifies, it reports none.
C17_ClassifyThresholds ==
    detect_pc = "done" =>
        LET c == Candidates(selector_map)
            nexts == NextPositions(c)
            pages == PagePositions(c)
        IN  /\ pagination_info.has_pagination = (nexts # {} \/ pages # {})
            /\ nexts # {} =>
                   /\ pagination_info.pagination_type = "next_button"
                   /\ \E i \in nexts :
                          /\ pagination_info.next_button_index = c[i].index
                          /\ \A j \in nexts :
                                 \/ c[j].score < c[i].score
                                 \/ c[j].score = c[i].score /\ j >= i
            /\ (nexts = {} /\ pages # {}) =>
                   /\ pagination_info.pagination_type = "page_numbers"
                   /\ pagination_info.next_button_index = 0
            /\ (nexts = {} /\ pages = {}) =>
                   /\ ~pagination_info.has_pagination
                   /\ pagination_info.pagination_type = "none"

\* A next button of score 3 seen before one of score 4, next to a page link: the
\* later, higher-scored one is chosen
C17_Witness ==
    /\ detect_pc = "done"
    /\ LET c == Candidates(selector_map)
       IN  /\ Len(c) = 3
           /\ c[1].type = "next_button" /\ c[1].score = 3
           /\ c[2].type = "next_button" /\ c[2].score = 4
           /\ c[3].type = "page_link"
           /\ pagination_info.next_button_index = c[2].index
           /\ pagination_info.pagination_type = "next_button"

\* The score the elements would have if a number and a page href counted once
ClaimedScore(e) ==
    (IF MatchesNext(e) THEN 3 ELSE 0)
    + (IF MatchesNumber(e) \/ MatchesHref(e) THEN 2 ELSE 0)
    + (IF MatchesClass(e) THEN 1 ELSE 0)
    + (IF MatchesClick(e) THEN 1 ELSE 0)

\* C18: every candidate's score is 3 for the next vocabulary, plus 2 for a number
\* or a page href, plus 1 for a pagination substring, plus 1 for clickability; a
\* lone link "Next" is a next_button of score 3.
C18_ScoreFormula ==
    detect_pc = "done" =>
        /\ \A i \in 1..Len(pagination_info.all_candidates) :
               LET c == pagination_info.all_candidates[i]
               IN  c.score = ClaimedScore(ElementAt(c.index))
        /\ (/\ Len(selector_map) = 1
            /\ selector_map[1].has_attributes
            /\ selector_map[1].node_name = "a"
            /\ selector_map[1].words = {"next"}
            /\ selector_map[1].href = "")
           => /\ Len(pagination_info.all_candidates) = 1
              /\ pagination_info.all_candidates[1].type = "next_button"
              /\ pagination_info.all_candidates[1].score = 3

\* C19 as stated: every rearrangement of the elements yields the same chosen
\* next button and the same type.
C19_AnyOrderSameChoice ==
    detect_pc = "done" =>
        \A p \in Permutations(Len(selector_map)) :
            LET other == detect_pagination(Permuted(selector_map, p))
            IN  /\ other.next_button_index = pagination_info.next_button_index
                /\ other.pagination_type = pagination_info.pagination_type

\* No two qualifying next buttons share the highest score
TopNextUnique(c) ==
    \A i, j \in NextPositions(c) :
        (i # j /\ c[i].score = c[j].score) => \E k \in NextPositions(c) : c[k].score > c[i].score

\* C19, amended: every rearrangement of the elements yields the same has_pagination
\* and the same type, and the same chosen next button unless two qualifying next
\* buttons share the highest score.
C19_SameChoiceWithoutTies ==
    detect_pc = "done" =>
        \A p \in Permutations(Len(selector_map)) :
            LET other == detect_pagination(Permuted(selector_map, p))
            IN  /\ other.has_pagination = pagination_info.has_pagination
                /\ other.pagination_type = pagination_info.pagination_type
                /\ TopNextUnique(Candidates(selector_map)) =>
                       other.next_button_index = pagination_info.next_button_index

\* Three candidates, the best next button seen last, two lesser ones before it
C19_Witness ==
    /\ detect_pc = "done"
    /\ LET c == Candidates(selector_map)
       IN  /\ Len(c) = 3
           /\ NextPositions(c) = {1, 2, 3}
           /\ c[1].score = 3 /\ c[2].score = 3 /\ c[3].score = 4
           /\ pagination_info.next_button_index = c[3].index

-----------------------------------------------------------------------------
\* Properties of the navigation step

\* The candidates the navigation has: for gtm the reported controls, for smart
\* the controls of the page
NavCandidates ==
    IF nav_impl = "gtm" THEN pagination_elements(nav_elements) ELSE nav_elements

NextCandidateExists == \E i \in 1..Len(NavCandidates) : HasNextText(NavCandidates[i])

PageCandidateExists == \E i \in 1..Len(NavCandidates) : IsDigitText(NavCandidates[i])

\* The text of the page link that leads to the page after this one
PageText(n) == CASE n = 2 -> "2" [] n = 3 -> "3" [] OTHER -> "none"

\* C20: the Next button is clicked first; a page link is clicked only if there is
\* no Next button candidate, and it is the link to current page + 1; the load-more
\* probe runs only if there is neither; with page links and no Next button the page
\* link is tried.
C20_StrategyOrder ==
    nav_pc = "done" =>
        /\ (NextCandidateExists /\ nav_log # <<>>) => nav_log[1][1] = "next_button"
        /\ \A i \in 1..Len(nav_log) :
               /\ nav_log[i][1] = "page_number" =>
                      /\ ~NextCandidateExists
                      /\ nav_log[i][2] = PageText(nav_page + 1)
               /\ nav_log[i][1] = "load_more" =>
                      /\ ~NextCandidateExists
                      /\ ~PageCandidateExists
        /\ (~NextCandidateExists /\ PageCandidateExists) =>
               \E i \in 1..Len(nav_log) : nav_log[i][1] = "page_number"

-----------------------------------------------------------------------------
\* Properties of CompanyExtractor.extract

\* The heuristic candidates of the page
Heuristic == _dedupe(CollectCandidates(dom_texts, {}))

\* The calls of the text collaborator, and the stages they belong to
TextStages == {"vision_convert", "refine", "from_dom"}

\* The first max_results of these records were returned
ReturnedPrefixOf(records) ==
    /\ Len(ex_result.records) <= extract_args.max_results
    /\ Len(ex_result.records) <= Len(records)
    /\ Len(ex_result.records) = Len(records) \/ Len(ex_result.records) = extract_args.max_results
    /\ \A i \in 1..Len(ex_result.records) : ex_result.records[i] = records[i]

\* C21: the records returned never contain two names that are equal ignoring case.
C21_NoCaseDuplicates ==
    ex_pc = "done" =>
        \A i, j \in 1..Len(ex_result.records) :
            i # j => NameLower[ex_result.records[i].name] # NameLower[ex_result.records[j].name]

\* The page has "Beta" and "Acme", the vision reply has "1. ACME": the records of
\* the page are returned and the reply's name is not added
C21_Witness ==
    /\ ex_pc = "done"
    /\ dom_texts = <<"Beta", "Acme">>
    /\ ex_log = <<Call("vision", [form |-> "array", items |-> <<"1. ACME">>])>>
    /\ ex_result.source = "vision_json"
    /\ Len(ex_result.records) = 2
    /\ ex_result.records[1].name = "Beta"
    /\ ex_result.records[2].name = "Acme"

\* The refinement was the last call and its reply has one of these forms
RefineRepliedWith(forms) ==
    /\ ex_pc = "done"
    /\ ex_log # <<>>
    /\ Last(ex_log).stage = "refine"
    /\ Last(ex_log).reply.form \in forms

C23_ScenarioC ==
    (/\ ex_pc = "done"
     /\ extractor.llm
     /\ extract_args.dom_excerpt
     /\ Heuristic = <<>>
     /\ \A i \in 1..Len(ex_log) :
            ex_log[i].stage \in TextStages =>
                ex_log[i].reply = [form |-> "array", items |-> <<"Acme">>])
    => /\ ex_result.source = "dom_llm"
       /\ \E i \in 1..Len(ex_result.records) : ex_result.records[i].name = "Acme"

\* C24: the vision collaborator is called only after the heuristic found nothing
\* and a stage of the text collaborator ran and gave no records.
C24_VisionLast ==
    \A i \in 1..Len(ex_log) :
        ex_log[i].stage = "vision" =>
            /\ Heuristic = <<>>
            /\ \E j \in 1..(i - 1) : ex_log[j].stage \in {"refine", "from_dom"}

\* C25: an error or timeout of the text or vision collaborator never leaves
\* extract, and when the last call failed the heuristic candidates are returned.
C25_CollaboratorErrorsCaught ==
    /\ ex_pc = "raised" => (Len(ex_log) = 1 /\ ex_log[1].stage = "dom")
    /\ (ex_pc = "done" /\ ex_log # <<>> /\ Last(ex_log).reply = Raised) =>
           ReturnedPrefixOf(Heuristic)

\* The vision call and the refinement both fail; the candidates are returned
C25_Witness ==
    /\ ex_pc = "done"
    /\ ex_log = <<Call("vision", Raised), Call("refine", Raised)>>
    /\ ex_result.records # <<>>
    /\ ex_result.source = "dom_llm_refine"

-----------------------------------------------------------------------------
\* Properties of _normalize_url

-----------------------------------------------------------------------------
\* Properties of LLMPlanner.select_action

IsStopAction(a) == a.is_terminal /\ a.tool_name = JVal("str", "stop") /\ a.params = EmptyDict

\* C27: the action returned is either the terminal stop action with empty params
\* or a non-terminal action with a string tool_name and dict params; a reply that
\* cannot be parsed, a payload with stop set, with tool_name missing or "stop", or
\* with params that are not a dict yields the stop action.
C27_ActionShapes ==
    select_pc = "returned" =>
        /\ \/ IsStopAction(selected)
           \/ /\ ~selected.is_terminal
              /\ selected.tool_name.t = "str"
              /\ selected.params.t = "dict"
        /\ response.form \in OtherForms => IsStopAction(selected)
        /\ response.form \in ObjectForms =>
               LET pl == response.payload
               IN  /\ Truthy(pl.stop) => IsStopAction(selected)
                   /\ pl.tool_name \in {Missing, JNull, JVal("str", "stop")} =>
                          IsStopAction(selected)
                   /\ pl.params.t \notin {"missing", "dict"} => IsStopAction(selected)

\* A payload with a tool name and params that are a list: the stop action
C27_Witness ==
    /\ select_pc = "returned"
    /\ response.form = "code_block"
    /\ response.payload.tool_name = JVal("str", "observe_page")
    /\ response.payload.params = JVal("list", "[]")
    /\ response.payload.stop = Missing
    /\ IsStopAction(selected)
    /\ selected.rationale = JVal("str", "Planner returned incomplete payload")

-----------------------------------------------------------------------------
\* The step budget of AgentOrchestrator.run

\* step_count and the number of tools executed in the main step stay within
\* max_steps, and an automatic observation only follows a tool of the main step
WithinStepBudget ==
    agent_pc # "idle" =>
        /\ context.step_count <= max_steps
        /\ Len(MainCalls) <= max_steps
        /\ Len(tool_log) <= 2 * max_steps
        /\ \A i \in 1..Len(tool_log) :
               tool_log[i].by = "auto" => (i > 1 /\ tool_log[i - 1].by # "auto")

\* C28: step_count never exceeds max_steps, at most max_steps tools are executed in
\* the main step, each followed by at most one automatic observe_page, and run ends.
C28_StepBudget ==
    /\ []WithinStepBudget
    /\ <>(agent_pc \in {"returned", "raised"})

\* The budget is used up by continuation actions that overrode the planner's stop
C28_Witness ==
    /\ agent_pc = "returned"
    /\ max_steps = MaxStepsBound
    /\ context.step_count = max_steps
    /\ context.completed
    /\ \A i \in 2..Len(MainCalls) : MainCalls[i].by = "continuation"

-----------------------------------------------------------------------------
\* The failure budget and the accepted duplicate

\* C29: consecutive_failures never exceeds 3, and once it is 3 the run neither
\* extracts nor navigates again.
C29_FailureBudget ==
    impl \in {"smart", "gtm"} =>
        /\ consecutive_failures <= max_consecutive_failures
        /\ consecutive_failures >= max_consecutive_failures =>
               pc \notin {"extract", "navigate"}

\* A step of the smart loop that hashed a content seen earlier in the run but not
\* on the page before
AcceptedDuplicate ==
    /\ impl = "smart" /\ pc = "extract"
    /\ Len(hash_log') = Len(hash_log) + 1
    /\ Last(hash_log') # last_content_hash
    /\ Last(hash_log') \in content_hashes

\* No two pages in a row had the same hash
NoAdjacentRepeat == \A i \in 1..(Len(hash_log) - 1) : hash_log[i] # hash_log[i + 1]

\* C30: a page whose hash was seen earlier in the run, but not on the page before,
\* does not stop the run, is not counted as a failure, resets
\* consecutive_same_content, adds no entry, and is followed by navigation; a run
\* in which no two pages in a row have the same hash is never stopped by the loop
\* guard, and if its pages all have content, navigation works and nothing raises, it
\* ends at the visited-URL check or at max_pages.
C30_AcceptedDuplicate ==
    /\ [][AcceptedDuplicate =>
            /\ pc' = "navigate"
            /\ stoppedAt' = stoppedAt
            /\ consecutive_failures' = consecutive_failures
            /\ consecutive_same_content' = 0
            /\ extracted_data' = extracted_data]_vars
    /\ []((impl = "smart" /\ NoAdjacentRepeat) =>
            /\ stoppedAt # "loop"
            /\ (pc = "done" /\ stoppedAt \notin {"nav_failed", "failures"}) =>
                   stoppedAt \in {"visited", "max_pages"})

\* The contents a, b, a on three pages: the third is not added, the counter is 0,
\* and the run is about to navigate
C30_Witness ==
    /\ impl = "smart" /\ pc = "navigate"
    /\ Len(hash_log) = 3
    /\ hash_log[1] = hash_log[3] /\ hash_log[1] # hash_log[2]
    /\ Len(extracted_data) = 2
    /\ consecutive_same_content = 0

-----------------------------------------------------------------------------
\* The page number stored in the entries of the smart loop

\* C31: in the run history of the smart loop the stored page numbers are strictly
\* increasing, and the page number of each entry is 1 plus the number of entries
\* appended before it.
C31_PageIndex ==
    impl = "smart" =>
        /\ \A i \in 1..Len(extracted_data) : extracted_data[i].page = i
        /\ \A i \in 1..(Len(extracted_data) - 1) :
               extracted_data[i].page < extracted_data[i + 1].page

\* The weaker half alone: the stored page numbers are strictly increasing
PageStrictlyIncreasing ==
    impl = "smart" =>
        \A i \in 1..(Len(extracted_data) - 1) :
            extracted_data[i].page < extracted_data[i + 1].page

-----------------------------------------------------------------------------
\* The continuation that overrides the planner's stop

\* The planner returned the terminal action in this step of run
PlannerAskedStop ==
    /\ agent_pc = "select"
    /\ Len(planner_log') = Len(planner_log) + 1
    /\ planner_log'[Len(planner_log')].is_terminal

\* The stop was accepted: run returns with completed = True and no tool ran
StopTaken ==
    /\ agent_pc' = "returned"
    /\ context'.completed
    /\ tool_log' = tool_log

\* The tool scheduled instead of the stop
Scheduled(tool_name, key) ==
    /\ agent_pc' = "execute"
    /\ action'.tool_name = tool_name
    /\ action'.key = key
    /\ ~context'.completed

\* The positions of the candidates that have a key (href, else text) that is not
\* in visited_pagination
UnvisitedAt(observation, visited) ==
    { i \in 1..Len(observation.pagination_candidates) :
        LET c == observation.pagination_candidates[i]
            key == IF c.href # "" THEN c.href ELSE c.text
        IN  key # "" /\ key \notin visited }

Min(S) == CHOOSE i \in S : \A j \in S : i <= j

\* C32: a planner stop is accepted only when no continuation applies. If the last
\* observation is a page_state with is_at_bottom false, scroll_page is executed
\* instead; otherwise, if the last observation lists a candidate with a key (href,
\* else text) not in visited_pagination, click_link_text on the first such
\* candidate is executed; with no observation, or neither case, run stops.
C32_StopOnlyWithoutContinuation ==
    /\ [][PlannerAskedStop =>
            IF context.observations = <<>> THEN StopTaken
            ELSE LET last == context.observations[Len(context.observations)]
                     unvisited == UnvisitedAt(last, context.visited_pagination)
                 IN  IF last.type = "page_state" /\ last.is_at_bottom = "false"
                     THEN Scheduled("scroll_page", "")
                     ELSE IF unvisited # {}
                     THEN LET c == last.pagination_candidates[Min(unvisited)]
                          IN  Scheduled("click_link_text",
                                        IF c.href # "" THEN c.href ELSE c.text)
                     ELSE StopTaken]_vars
    /\ [][(agent_pc = "execute" /\ action.is_terminal) =>
            /\ Len(tool_log') = Len(tool_log) + 1
            /\ tool_log'[Len(tool_log')].tool_name = action.tool_name
            /\ tool_log'[Len(tool_log')].by = "continuation"]_vars

\* A stop was overridden by the click on the second candidate of a page at its
\* bottom, the first candidate having neither href nor text, and that click ran
C32_Witness ==
    /\ Len(tool_log) >= 2
    /\ LET clicked == tool_log[Len(tool_log)]
           seen == tool_log[Len(tool_log) - 1]
       IN  /\ clicked.tool_name = "click_link_text" /\ clicked.by = "continuation"
           /\ seen.tool_name = "observe_page" /\ seen.success
           /\ seen.observation.is_at_bottom = "true"
           /\ Len(seen.observation.pagination_candidates) = 3
    /\ "/p2" \in context.visited_pagination

-----------------------------------------------------------------------------
\* The automatic pagination follow-up

\* The positions in the history of the clicks the follow-up scheduled
AutoClicks ==
    { i \in 1..Len(tool_log) :
        tool_log[i].tool_name = "click_link_text" /\ tool_log[i].by = "continuation" }

\* C33: within one run the automatic pagination follow-up selects a candidate key
\* at most once: the key of a successful click_link_text is in visited_pagination,
\* a failed click ends the run, and visited_pagination only grows.
C33_KeyClickedOnce ==
    /\ [](\A i, j \in AutoClicks : i < j => tool_log[i].key # tool_log[j].key)
    /\ [](\A i \in 1..Len(tool_log) :
            tool_log[i].tool_name = "click_link_text" =>
                IF tool_log[i].success
                THEN tool_log[i].key \in context.visited_pagination
                ELSE i = Len(tool_log) /\ agent_pc = "returned")
    /\ [][context.visited_pagination \subseteq context'.visited_pagination]_vars

\* A control known by its text only was clicked by the follow-up, the page observed
\* after the click lists it again, and the planner's next stop was accepted
C33_Witness ==
    /\ agent_pc = "returned" /\ context.completed
    /\ Len(tool_log) = 3
    /\ tool_log[2].tool_name = "click_link_text" /\ tool_log[2].by = "continuation"
    /\ tool_log[2].key = "Next" /\ tool_log[2].success
    /\ tool_log[3].by = "auto" /\ tool_log[3].success
    /\ tool_log[3].observation.is_at_bottom = "true"
    /\ tool_log[3].observation.pagination_candidates = <<[text |-> "Next", href |-> ""]>>
    /\ planner_log[Len(planner_log)].is_terminal
    /\ context.step_count < max_steps

-----------------------------------------------------------------------------
\* The completed flag of the returned context

\* The run ended because a tool failed, an unknown tool was selected or the
\* automatic observation failed
EndedByFailure ==
    /\ agent_pc = "returned"
    /\ \/ tool_log # <<>> /\ ~tool_log[Len(tool_log)].success
       \/ /\ context.notes # <<>>
          /\ context.notes[Len(context.notes)][1] = "unknown tool"

\* C34: run returns completed = true exactly when the planner's stop was accepted
\* or step_count >= max_steps at exit; a run ended by a failed tool, an unknown
\* tool or a failed automatic observation returns completed = false unless that
\* step used up the step budget.
C34_CompletedFlag ==
    agent_pc = "returned" =>
        /\ context.completed <=> (StopAccepted \/ context.step_count >= max_steps)
        /\ EndedByFailure =>
               /\ ~StopAccepted
               /\ context.completed <=> (context.step_count = max_steps)

\* The tool of the last step the budget allows failed: the run is returned as
\* completed
C34_Witness ==
    /\ EndedByFailure
    /\ max_steps >= 2
    /\ tool_log # <<>>
    /\ ~tool_log[Len(tool_log)].success
    /\ tool_log[Len(tool_log)].by = "planner"
    /\ context.step_count = max_steps
    /\ context.completed

-----------------------------------------------------------------------------
\* pages_processed of the smart and gtm loops

\* A navigation step that clicked through
NavigatedOn ==
    /\ pc = "navigate" /\ pc' = "while"
    /\ raised_at' = raised_at

\* The stops that leave the loop by break on the page being processed
StoppedOnPage == stoppedAt \in {"nav_failed", "no_pagination", "visited", "loop"}

\* C35: pages_processed of the smart and gtm loops is the number of successful
\* navigations, current_page - 1, not the number of pages extracted: a run that
\* stops on page k because no pagination was found, the URL was visited or the
\* loop guard fired reports k - 1, and a run that extracted only the first page
\* reports 0.
C35_PagesProcessed ==
    /\ [][(impl \in {"smart", "gtm"} /\ current_page' # current_page) =>
            (NavigatedOn /\ current_page' = current_page + 1)]_vars
    /\ [][(impl \in {"smart", "gtm"} /\ NavigatedOn) =>
            current_page' = current_page + 1]_vars
    /\ []((impl \in {"smart", "gtm"} /\ pc = "done") =>
            /\ report.pages_processed = current_page - 1
            /\ (StoppedOnPage /\ ~raised_ever) =>
                   /\ report.pages_processed = cycles - 1
                   /\ Len(extract_log) =
                          IF stoppedAt = "visited" THEN cycles - 1 ELSE cycles
            /\ (StoppedOnPage /\ Len(extract_log) = 1 /\ cycles = 1) =>
                   report.pages_processed = 0)

\* The first page was extracted and kept, no pagination was found, and the report
\* says 0 pages processed
C35_Witness ==
    /\ impl \in {"smart", "gtm"} /\ pc = "done"
    /\ stoppedAt \in {"nav_failed", "no_pagination"}
    /\ Len(extract_log) = 1 /\ Len(extracted_data) = 1
    /\ report.pages_processed = 0

-----------------------------------------------------------------------------
\* The visited key of the smart loop

\* Two URLs with the same scheme, host and path
SameLocation(u, v) == u.scheme = v.scheme /\ u.netloc = v.netloc /\ u.path = v.path

\* The URL the browser is on differs from an extracted one in query or fragment at
\* most
AtExtractedLocation ==
    \E i \in 1..Len(extract_log) : SameLocation(extract_log[i], browser_url)

-----------------------------------------------------------------------------
\* GTMAgent.extract and GTMAgent._execute_extraction_plan
\* (src/openfunnel_browser/agent/gtm_agent.py)

\* The instructions a caller hands in.  A text is a sequence of pieces; the pieces
\* are cut so that every keyword below is a sequence of whole pieces.
InstructionTexts ==
    { <<"list", " ", "companies">>,
      <<"get", " ", "all", " ", "page", "s">>,
      <<"Scrape", " ", "ALL", " ", "Page", "s">>,
      <<"sm", "all", " ", "page", "s">>,
      <<"all", " ", "the", " ", "page", "s">>,
      <<"Every", " ", "page">> }

\* str.lower() on one piece
LowerPiece(piece) ==
    CASE piece = "ALL"    -> "all"
      [] piece = "Page"   -> "page"
      [] piece = "Scrape" -> "scrape"
      [] piece = "Every"  -> "every"
      [] OTHER            -> piece

\* instructions.lower()
str_lower(text) == [i \in 1..Len(text) |-> LowerPiece(text[i])]

\* keyword in text: the keyword occurs somewhere in the text, not only as words
Contains(text, keyword) ==
    \E i \in 0..(Len(text) - Len(keyword)) :
        SubSeq(text, i + 1, i + Len(keyword)) = keyword

force_multipage_keywords ==
    { <<"all", " ", "page", "s">>,
      <<"all", " ", "results">>,
      <<"every", " ", "page">>,
      <<"each", " ", "page">>,
      <<"through", " ", "all">>,
      <<"not", " ", "just", " ", "the", " ", "first", " ", "page">> }

\* Mutant: the keywords are looked for in the instructions as written
force_multipage_AsWritten(text) ==
    \E keyword \in force_multipage_keywords : Contains(text, keyword)

\* force_multipage = any(keyword in instructions.lower() for keyword in ...)
force_multipage(text) ==
    \E keyword \in force_multipage_keywords : Contains(str_lower(text), keyword)

\* max_pages of the multi-page extraction _execute_extraction_plan starts
ForcedMaxPages == 20

\* max_pages of smart_paginate_and_extract when the caller gives none
DefaultMaxPages == 10

\* What _analyze_pagination_patterns returns: the dict of its except clause, which
\* has neither pagination_found nor total_candidates, or both keys with
\* pagination_found = (total_candidates > 0)
PaginationAnalyses ==
    { [has_keys |-> FALSE, pagination_found |-> FALSE, total_candidates |-> 0] }
    \cup { [has_keys |-> TRUE, pagination_found |-> n > 0, total_candidates |-> n] :
               n \in {0, 2} }

\* What create_extraction_plan returns: its phases catch their exceptions and the
\* status it sets is always 'completed'
ReconResults ==
    { [status |-> "completed", pagination_analysis |-> pa] : pa \in PaginationAnalyses }

\* pagination_analysis.get('pagination_found', False)
GetPaginationFound(pa) == IF pa.has_keys THEN pa.pagination_found ELSE FALSE

\* pagination_analysis.get('total_candidates', 0)
GetTotalCandidates(pa) == IF pa.has_keys THEN pa.total_candidates ELSE 0

\* if (pagination_found or pagination_candidates > 0 or
\*     manual_pagination_check.get('pagination_found', False))
UseMultiPage(pa, manual_found) ==
    GetPaginationFound(pa) \/ GetTotalCandidates(pa) > 0 \/ manual_found

\* The dict smart_paginate_and_extract returns, with the max_pages it was given
MultiPage(pages) ==
    [action |-> "smart_paginate_and_extract", status |-> "completed",
     max_pages |-> pages, sections_processed |-> 0, error |-> ""]

\* The dict of the single-page extraction
SinglePage(sections) ==
    [action |-> "single_page_extraction", status |-> "completed",
     max_pages |-> 0, sections_processed |-> sections, error |-> ""]

\* The dict of the except clause of _execute_extraction_plan
PlanFailed(error) ==
    [action |-> "execute_extraction_plan", status |-> "failed",
     max_pages |-> 0, sections_processed |-> 0, error |-> error]

NoPlanResult ==
    [action |-> "none", status |-> "none", max_pages |-> 0, sections_processed |-> 0,
     error |-> ""]

\* The dicts extract returns from its try block
Report(status, extraction) == [status |-> status, error |-> "", extraction |-> extraction]

\* Mutant: the dict of the except clause without the error text
FailedReport_NoText(error) == [status |-> "failed", error |-> "", extraction |-> NoPlanResult]

\* The dict extract returns from its except clause
FailedReport(error) == [status |-> "failed", error |-> error, extraction |-> NoPlanResult]

GtmAgentInit ==
    /\ ga_pc = "start"
    /\ instructions \in InstructionTexts
    /\ recon_result = <<>>
    /\ ga_log = <<>>
    /\ ga_report = <<>>
    /\ LoopIdle /\ AgentIdle /\ DetectIdle /\ NavIdle /\ ExtractIdle
    /\ NormIdle /\ PlannerIdle

GtmAgentUnchanged ==
    UNCHANGED <<loopVars, agentVars, detectVars, navVars, extractVars, normVars,
                plannerVars>>

\* self.browser = BrowserSession(...); await self.browser.start()
GaStart ==
    /\ ga_pc = "start"
    /\ ga_log' = Append(ga_log, "start")
    /\ \/ /\ ga_pc' = "navigate"
          /\ UNCHANGED ga_report
       \/ \* start raises (no Chrome, no connection): except Exception
          /\ ga_report' = FailedReport("start failed")
          /\ ga_pc' = "finally"
    /\ UNCHANGED <<instructions, recon_result>>
    /\ GtmAgentUnchanged

\* await self.tools.navigate_to_url(url)
GaNavigate ==
    /\ ga_pc = "navigate"
    /\ ga_log' = Append(ga_log, "navigate_to_url")
    /\ \/ /\ ga_pc' = "recon"
          /\ UNCHANGED ga_report
       \/ \* navigate or get_current_url raises
          /\ ga_report' = FailedReport("navigate failed")
          /\ ga_pc' = "finally"
    /\ UNCHANGED <<instructions, recon_result>>
    /\ GtmAgentUnchanged

\* recon_result = await self.planner.create_extraction_plan(instructions), and the
\* test of its status; the else branch runs smart_paginate_and_extract with the
\* default max_pages
GaRecon ==
    /\ ga_pc = "recon"
    /\ \E result \in ReconResults :
          /\ recon_result' = result
          /\ IF result.status = "completed"
             THEN /\ ga_log' = Append(ga_log, "create_extraction_plan")
                  /\ ga_pc' = "plan"
                  /\ UNCHANGED ga_report
             ELSE /\ ga_log' = ga_log \o <<"create_extraction_plan",
                                          "smart_paginate_and_extract">>
                  /\ ga_report' = Report("completed_with_fallback",
                                         MultiPage(DefaultMaxPages))
                  /\ ga_pc' = "finally"
    /\ UNCHANGED instructions
    /\ GtmAgentUnchanged

\* _execute_extraction_plan up to the manual detection: the keyword test
GaPlan ==
    /\ ga_pc = "plan"
    /\ IF force_multipage(instructions)
       THEN /\ ga_log' = Append(ga_log, "smart_paginate_and_extract")
            /\ ga_report' = Report("completed", MultiPage(ForcedMaxPages))
            /\ ga_pc' = "finally"
       ELSE /\ ga_pc' = "detect"
            /\ UNCHANGED <<ga_log, ga_report>>
    /\ UNCHANGED <<instructions, recon_result>>
    /\ GtmAgentUnchanged

\* manual_pagination_check = await self.tools.detect_pagination(), which catches
\* its exceptions, and the choice between multi-page and single-page extraction
GaDetect ==
    /\ ga_pc = "detect"
    /\ \E manual_found \in BOOLEAN :
          LET detected == IF manual_found THEN "detect_pagination: found"
                          ELSE "detect_pagination: none"
          IN  IF UseMultiPage(recon_result.pagination_analysis, manual_found)
              THEN /\ ga_log' = ga_log \o <<detected, "smart_paginate_and_extract">>
                   /\ ga_report' = Report("completed", MultiPage(ForcedMaxPages))
                   /\ ga_pc' = "finally"
              ELSE /\ ga_log' = Append(ga_log, detected)
                   /\ ga_pc' = "single"
                   /\ UNCHANGED ga_report
    /\ UNCHANGED <<instructions, recon_result>>
    /\ GtmAgentUnchanged

\* The calls of the single-page extraction up to and including section n
SectionCalls(n) ==
    [i \in 1..(2 * n) |-> IF i % 2 = 1 THEN "scroll_page" ELSE "extract_data"]

\* The single-page extraction: scroll and extract at the top, in the middle and at
\* the bottom.  extract_data catches its exceptions and tells by its status;
\* scroll_page does not, and the except clause of _execute_extraction_plan takes over.
GaSingle ==
    /\ ga_pc = "single"
    /\ \/ \E completed \in 0..3 :
             /\ ga_log' = ga_log \o SectionCalls(3)
             /\ ga_report' = Report("completed", SinglePage(completed))
       \/ \E done \in 0..2 :
             /\ ga_log' = ga_log \o SectionCalls(done) \o <<"scroll_page">>
             /\ ga_report' = Report("completed", PlanFailed("scroll failed"))
    /\ ga_pc' = "finally"
    /\ UNCHANGED <<instructions, recon_result>>
    /\ GtmAgentUnchanged

\* finally: if self.browser: await self.browser.close(); then the return
GaFinally ==
    /\ ga_pc = "finally"
    /\ ga_log' = Append(ga_log, "close")
    /\ ga_pc' = "returned"
    /\ UNCHANGED <<instructions, recon_result, ga_report>>
    /\ GtmAgentUnchanged

GtmAgentNext ==
    \/ GaStart
    \/ GaNavigate
    \/ GaRecon
    \/ GaPlan
    \/ GaDetect
    \/ GaSingle
    \/ GaFinally

GtmAgentSpec == GtmAgentInit /\ [][GtmAgentNext]_vars

-----------------------------------------------------------------------------
\* Properties of GTMAgent.extract

\* How often this call was made in the run
Calls(name) == Cardinality({ i \in 1..Len(ga_log) : ga_log[i] = name })

\* The run got as far as the reconnaissance
ReconDone == Calls("create_extraction_plan") = 1

\* C37: extract does not propagate an exception of browser start, navigation,
\* reconnaissance or extraction: it returns a report with status completed,
\* completed_with_fallback or failed, the failed one with the error text, and on
\* every path the browser session is closed exactly once, as the last call before
\* extract returns.
C37_ReportAndClose ==
    ga_pc # "idle" =>
        /\ ga_pc \in {"start", "navigate", "recon", "plan", "detect", "single",
                      "finally", "returned"}
        /\ Calls("close") = IF ga_pc = "returned" THEN 1 ELSE 0
        /\ ga_pc = "returned" =>
              /\ ga_log[Len(ga_log)] = "close"
              /\ ga_log[1] = "start"
              /\ ga_report.status \in {"completed", "completed_with_fallback", "failed"}
              /\ ga_report.status = "failed" <=> ~ReconDone
              /\ ga_report.status = "failed" =>
                    ga_report.error = (IF Calls("navigate_to_url") = 0
                                       THEN "start failed" ELSE "navigate failed")
              /\ ga_report.status # "failed" => ga_report.extraction.action # "none"

\* start raised: extract returned the failed report with the error text after
\* closing the session it had created
C37_Witness ==
    /\ ga_pc = "returned"
    /\ ga_log = <<"start", "close">>
    /\ ga_report.status = "failed"
    /\ ga_report.error = "start failed"

\* The instructions that contain a trigger phrase when case is ignored
TriggerTexts ==
    { <<"get", " ", "all", " ", "page", "s">>,
      <<"Scrape", " ", "ALL", " ", "Page", "s">>,
      <<"sm", "all", " ", "page", "s">>,
      <<"Every", " ", "page">> }

\* Reconnaissance reported pagination_found or total_candidates > 0
ReconFoundPagination ==
    /\ ReconDone
    /\ recon_result.pagination_analysis.has_keys
    /\ \/ recon_result.pagination_analysis.pagination_found
       \/ recon_result.pagination_analysis.total_candidates > 0

ManualDetections == Calls("detect_pagination: found") + Calls("detect_pagination: none")

\* C38: when the instructions contain a trigger phrase, case ignored, the
\* multi-page extraction with max_pages = 20 is started without any pagination
\* detection; otherwise the multi-page extraction is used exactly when
\* reconnaissance reported pagination_found or total_candidates > 0 or the manual
\* detection found pagination, and the single-page extraction of three sections in
\* the remaining case.
C38_PlanChoice ==
    (ga_pc \in {"finally", "returned"} /\ ReconDone) =>
        LET extraction == ga_report.extraction
            multi == /\ extraction.action = "smart_paginate_and_extract"
                     /\ extraction.max_pages = 20
                     /\ Calls("smart_paginate_and_extract") = 1
                     /\ Calls("scroll_page") = 0 /\ Calls("extract_data") = 0
            single == /\ Calls("smart_paginate_and_extract") = 0
                      /\ Calls("scroll_page") >= 1
                      /\ extraction.action = "single_page_extraction" =>
                             Calls("scroll_page") = 3 /\ Calls("extract_data") = 3
                      /\ extraction.action # "single_page_extraction" =>
                             extraction.status = "failed"
        IN  IF instructions \in TriggerTexts
            THEN multi /\ ManualDetections = 0
            ELSE /\ ManualDetections = 1
                 /\ IF ReconFoundPagination \/ Calls("detect_pagination: found") = 1
                    THEN multi
                    ELSE single

\* Instructions with the phrase in capitals on a page where reconnaissance found no
\* pagination: the multi-page extraction ran and the manual detection did not
C38_Witness ==
    /\ ga_pc = "returned"
    /\ instructions = <<"Scrape", " ", "ALL", " ", "Page", "s">>
    /\ ReconDone
    /\ recon_result.pagination_analysis.has_keys
    /\ recon_result.pagination_analysis.total_candidates = 0
    /\ ga_report.extraction.max_pages = 20
    /\ ManualDetections = 0

-----------------------------------------------------------------------------
\* The refinement never empties the candidate list

\* A reply that gives no acceptable record: text that is not JSON or holds no
\* array, an empty array, or an array of rejected names only
NoAcceptableRecord(reply) ==
    \/ reply.form \in {"empty", "prose", "broken_array", "object"}
    \/ /\ reply.form \in {"array", "prose_with_array"}
       /\ \A i \in 1..Len(reply.items) : reply.items[i] = "login"

\* C39: the refinement by the text collaborator never turns a non-empty list of
\* heuristic candidates into an empty result: when its reply gives no acceptable
\* record, or the call raises, extract returns the heuristic candidates, in order,
\* up to max_results, under the source dom_llm_refine.
C39_RefinementNeverEmpties ==
    (ex_pc = "done" /\ ex_log # <<>> /\ Last(ex_log).stage = "refine") =>
        /\ Heuristic # <<>>
        /\ ex_result.records # <<>>
        /\ (Last(ex_log).reply = Raised \/ NoAcceptableRecord(Last(ex_log).reply)) =>
               /\ ReturnedPrefixOf(Heuristic)
               /\ ex_result.source = "dom_llm_refine"

\* Two candidates and a reply that lists a rejected name only: both candidates are
\* returned
C39_Witness ==
    /\ ex_pc = "done"
    /\ dom_texts = <<"Acme", "Beta">>
    /\ extract_args.max_results = 2
    /\ ex_log = <<Call("refine", [form |-> "array", items |-> <<"login">>])>>
    /\ ex_result.records = Heuristic
    /\ Len(ex_result.records) = 2
    /\ ex_result.source = "dom_llm_refine"

=============================================================================
